---- MODULE Spec2Model ----
(***************************************************************************)
(* Model of the OpenSpec approval hooks: the PreToolUse enforcement gate   *)
(* (openspec-enforce.ts, both the permissive and the strict file), the     *)
(* PostToolUse todo sync (post-tool-use.ts), the plan diff and the state   *)
(* store (shared-state.ts) and the start dispatch of the UserPromptSubmit  *)
(* hook (user-messages hook, held in update.ts).                           *)
(*                                                                         *)
(* Strings the code inspects character by character (task text, lines of  *)
(* tasks.md) are sequences of one-character strings.  File paths are       *)
(* sequences of tokens: a separator ("/", "\\"), a dot ("."), or a whole   *)
(* path segment.  A JavaScript value that is absent is written with an     *)
(* explicit flag (hasContent, present, todosIsArray) next to the value.    *)
(***************************************************************************)
EXTENDS Integers, Sequences, FiniteSets, TLC

\* ------------------------------------------------------------------------
\* Bounds of the model
\* ------------------------------------------------------------------------
MaxTodos == 2        \* longest todos array of a TodoWrite payload
MaxEdits == 2        \* longest edits array of a MultiEdit payload
MaxPlanLen == 3      \* longest task sequence given to the plan diff alone

\* ------------------------------------------------------------------------
\* Generic helpers
\* ------------------------------------------------------------------------
SeqsUpTo(S, n) == UNION { [1..k -> S] : k \in 0..n }

Range(s) == { s[i] : i \in 1..Len(s) }

EndsWith(s, suffix) ==
    /\ Len(suffix) <= Len(s)
    /\ SubSeq(s, Len(s) - Len(suffix) + 1, Len(s)) = suffix

\* ------------------------------------------------------------------------
\* Text: String.prototype.toLowerCase and String.prototype.trim
\* ------------------------------------------------------------------------
UpperLetters ==
    <<"A", "B", "C", "D", "E", "F", "G", "H", "I", "J", "K", "L", "M",
      "N", "O", "P", "Q", "R", "S", "T", "U", "V", "W", "X", "Y", "Z">>

LowerLetters ==
    <<"a", "b", "c", "d", "e", "f", "g", "h", "i", "j", "k", "l", "m",
      "n", "o", "p", "q", "r", "s", "t", "u", "v", "w", "x", "y", "z">>

ToLowerChar(c) ==
    IF \E k \in 1..26 : UpperLetters[k] = c
    THEN LowerLetters[CHOOSE k \in 1..26 : UpperLetters[k] = c]
    ELSE c

ToLower(s) == [i \in 1..Len(s) |-> ToLowerChar(s[i])]

IsSpace(c) == c \in {" ", "\t"}

RECURSIVE TrimLeft(_)
TrimLeft(s) ==
    IF s # <<>> /\ IsSpace(Head(s)) THEN TrimLeft(Tail(s)) ELSE s

RECURSIVE TrimRight(_)
TrimRight(s) ==
    IF s # <<>> /\ IsSpace(s[Len(s)])
    THEN TrimRight(SubSeq(s, 1, Len(s) - 1))
    ELSE s

Trim(s) == TrimRight(TrimLeft(s))

\* normalizeTaskContent: content.toLowerCase().trim()
normalizeTaskContent(content) == Trim(ToLower(content))

\* ------------------------------------------------------------------------
\* Tasks.  A Task is [hasContent, content, completed, line]; hasContent is
\* FALSE for a task whose content is undefined (a todo sent without it).
\* ------------------------------------------------------------------------
Task(content, completed, line) ==
    [hasContent |-> TRUE, content |-> content, completed |-> completed, line |-> line]

\* the matching key of a task; <<"undefined">> stands for the missing content
TaskKey(t) == IF t.hasContent THEN normalizeTaskContent(t.content) ELSE <<"undefined">>

KeysOf(tasks) == { TaskKey(tasks[i]) : i \in 1..Len(tasks) }

\* new Map(tasks.map(t => [key, t])): the last task with a key wins
LastIndexOfKey(tasks, key) ==
    CHOOSE i \in 1..Len(tasks) :
        /\ TaskKey(tasks[i]) = key
        /\ \A j \in (i+1)..Len(tasks) : TaskKey(tasks[j]) # key

MapGet(tasks, key) == tasks[LastIndexOfKey(tasks, key)]

\* ------------------------------------------------------------------------
\* compareApprovedPlan (shared-state.ts).  normalizeTaskContent raises a
\* TypeError on an undefined content, while the two maps are built, before
\* any bucket is filled: threw is then TRUE and the buckets are empty.
\* ------------------------------------------------------------------------
EmptyDiff ==
    [threw |-> FALSE, added |-> <<>>, removed |-> <<>>, modified |-> <<>>, unchanged |-> <<>>]

RECURSIVE ClassifyCurrent(_, _, _)
\* a variant that files every current task under unchanged, the last one first
ClassifyCurrent_Mut(approved, current, acc) ==
    [acc EXCEPT !.unchanged = [i \in 1..Len(current) |-> current[Len(current) + 1 - i]]]

\* the loop over current: added, modified or unchanged
ClassifyCurrent(approved, current, acc) ==
    IF current = <<>> THEN acc
    ELSE LET task == Head(current)
             normalized == TaskKey(task)
         IN  IF normalized \notin KeysOf(approved)
             THEN ClassifyCurrent(approved, Tail(current),
                      [acc EXCEPT !.added = Append(@, task)])
             ELSE IF MapGet(approved, normalized).completed # task.completed
             THEN ClassifyCurrent(approved, Tail(current),
                      [acc EXCEPT !.modified =
                          Append(@, [old |-> MapGet(approved, normalized), new |-> task])])
             ELSE ClassifyCurrent(approved, Tail(current),
                      [acc EXCEPT !.unchanged = Append(@, task)])

\* a variant that lists every approved task under removed
compareApprovedPlan_Mut(approved, current) ==
    IF \E i \in 1..Len(approved) : ~approved[i].hasContent THEN [EmptyDiff EXCEPT !.threw = TRUE]
    ELSE IF \E i \in 1..Len(current) : ~current[i].hasContent THEN [EmptyDiff EXCEPT !.threw = TRUE]
    ELSE ClassifyCurrent(approved, current, [EmptyDiff EXCEPT !.removed = approved])

compareApprovedPlan(approved, current) ==
    IF \E i \in 1..Len(approved) : ~approved[i].hasContent THEN [EmptyDiff EXCEPT !.threw = TRUE]
    ELSE IF \E i \in 1..Len(current) : ~current[i].hasContent THEN [EmptyDiff EXCEPT !.threw = TRUE]
    ELSE ClassifyCurrent(approved, current,
             [EmptyDiff EXCEPT !.removed =
                 SelectSeq(approved, LAMBDA t : TaskKey(t) \notin KeysOf(current))])

\* ------------------------------------------------------------------------
\* parseTasksFromContent (shared-state.ts): a document is a sequence of
\* lines, a line a sequence of characters.  The line pattern is
\*     /^(\s*)-\s+\[([ xX])\]\s+(.+)$/
\* ------------------------------------------------------------------------
RECURSIVE SkipSpaces(_, _)
\* index of the first character at or after i that is not white space
SkipSpaces(line, i) ==
    IF i <= Len(line) /\ IsSpace(line[i]) THEN SkipSpaces(line, i + 1) ELSE i

\* the match of the pattern on one line: [ok, box, text]
MatchTaskLine(line) ==
    LET dash == SkipSpaces(line, 1)
        open == SkipSpaces(line, dash + 1)
        text == SkipSpaces(line, open + 3)
        noMatch == [ok |-> FALSE, box |-> " ", text |-> <<>>]
    IN  IF ~(dash <= Len(line) /\ line[dash] = "-") THEN noMatch
        ELSE IF ~(open > dash + 1 /\ open + 2 <= Len(line)) THEN noMatch
        ELSE IF ~(line[open] = "[" /\ line[open + 1] \in {" ", "x", "X"} /\ line[open + 2] = "]")
             THEN noMatch
        ELSE IF text <= Len(line)
             \* \s+ takes the white space, (.+) the rest of the line
             THEN IF text > open + 3
                  THEN [ok |-> TRUE, box |-> line[open + 1], text |-> SubSeq(line, text, Len(line))]
                  ELSE noMatch
        \* only white space follows "]": \s+ gives its last character to (.+)
        ELSE IF Len(line) >= open + 4
             THEN [ok |-> TRUE, box |-> line[open + 1], text |-> <<line[Len(line)]>>]
             ELSE noMatch

RECURSIVE ParseLines(_, _)
ParseLines(lines, index) ==
    IF index > Len(lines) THEN <<>>
    ELSE LET m == MatchTaskLine(lines[index])
         IN  IF m.ok
             THEN <<Task(Trim(m.text), ToLowerChar(m.box) = "x", index)>>
                      \o ParseLines(lines, index + 1)
             ELSE ParseLines(lines, index + 1)

parseTasksFromContent(content) == ParseLines(content, 1)

\* ------------------------------------------------------------------------
\* The project on disk: one work-item directory, openspec/changes/c1, with
\* its tasks.md and proposal.md.  The task of tasks.md names a file.
\* ------------------------------------------------------------------------
ChangeOne == <<"c", "1">>
ChangeTwo == <<"c", "2">>

\* the directories of openspec/changes (findChange, listChanges)
ChangeDirs == {ChangeOne, ChangeTwo}

TextA == <<"t", "/", "a", ".", "t", "s">>
TextAVariant == <<"T", "/", "a", ".", "t", "s", " ">>
TextB == <<"b">>

TasksMd ==
    [id \in ChangeDirs |->
        << <<"#", " ", "T">>,
           <<"-", " ", "[", " ", "]", " ">> \o TextA,
           <<"-", " ", "[", "y", "]", " ", "b">>,
           <<"n", "o", "t", "e">> >>]

ProposalMd == [id \in ChangeDirs |-> << <<"#", " ", "P">> >>]

\* calculateFileHash: the digest is represented by the content it is taken of
calculateFileHash(content) == <<"sha256", content>>

\* generateBranchName: "feature/" followed by the change id
generateBranchName(changeId) == <<"f", "e", "a", "t", "u", "r", "e", "/">> \o changeId

MainBranch == <<"m", "a", "i", "n">>
\* what getCurrentBranch returns when both git attempts fail
UnknownBranch == <<"u", "n", "k", "n", "o", "w", "n">>

\* ------------------------------------------------------------------------
\* extractAffectedFilesFromTasks and isFileAffected (shared-state.ts).
\* The four patterns, each applied with matchAll to every task text:
\* (BT is written for the backtick character):
\*   1  /BT([^BT]+\.(ts|js|tsx|jsx|md|json|yaml|yml|css|scss|html))BT/g
\*   2  /\b(src\/[^\sBT]+\.(ts|js|tsx|jsx))/g
\*   3  /\b(test\/[^\sBT]+\.(ts|js|tsx|jsx))/g
\*   4  /\b([a-zA-Z0-9_-]+\/[^\sBT]+\.(ts|js|tsx|jsx|md|json))/g
\* ------------------------------------------------------------------------
\* the backtick character, as an element of a character sequence
Backtick == "BT"

LowerChars == {"a", "b", "c", "d", "e", "f", "g", "h", "i", "j", "k", "l", "m", "n", "o", "p", "q", "r", "s", "t", "u", "v", "w", "x", "y", "z"}
UpperChars == {"A", "B", "C", "D", "E", "F", "G", "H", "I", "J", "K", "L", "M", "N", "O", "P", "Q", "R", "S", "T", "U", "V", "W", "X", "Y", "Z"}
DigitChars == {"0", "1", "2", "3", "4", "5", "6", "7", "8", "9"}

\* \w, and the class [a-zA-Z0-9_-]
IsWordChar(c) == c \in LowerChars \cup UpperChars \cup DigitChars \cup {"_"}
IsNameChar(c) == IsWordChar(c) \/ c = "-"

Exts1 == <<<<"t", "s">>, <<"j", "s">>, <<"t", "s", "x">>, <<"j", "s", "x">>, <<"m", "d">>, <<"j", "s", "o", "n">>, <<"y", "a", "m", "l">>, <<"y", "m", "l">>, <<"c", "s", "s">>, <<"s", "c", "s", "s">>, <<"h", "t", "m", "l">>>>
Exts2 == <<<<"t", "s">>, <<"j", "s">>, <<"t", "s", "x">>, <<"j", "s", "x">>>>
Exts4 == <<<<"t", "s">>, <<"j", "s">>, <<"t", "s", "x">>, <<"j", "s", "x">>, <<"m", "d">>, <<"j", "s", "o", "n">>>>

SrcPrefix == <<"s", "r", "c", "/">>
TestPrefix == <<"t", "e", "s", "t", "/">>

StartsWithAt(s, i, piece) ==
    /\ i + Len(piece) - 1 <= Len(s)
    /\ SubSeq(s, i, i + Len(piece) - 1) = piece

\* \b at position i: exactly one of the characters around it is a word character
WordBoundaryAt(s, i) ==
    LET before == i > 1 /\ IsWordChar(s[i - 1])
        after == i <= Len(s) /\ IsWordChar(s[i])
    IN  before # after

\* the body classes [^BT] (quoted) and [^\sBT]
IsBodyChar(c, quoted) == c # Backtick /\ (quoted \/ ~IsSpace(c))

RECURSIVE BodyLimit(_, _, _)
\* the last index of the run of body characters starting at b (b - 1 if none)
BodyLimit(s, b, quoted) ==
    IF b <= Len(s) /\ IsBodyChar(s[b], quoted) THEN BodyLimit(s, b + 1, quoted) ELSE b - 1

\* the extensions of exts that stand at position k of s, in the order of the pattern
ExtsAt(s, k, exts, quoted) ==
    SelectSeq(exts, LAMBDA ext :
        /\ StartsWithAt(s, k, ext)
        /\ quoted => (k + Len(ext) <= Len(s) /\ s[k + Len(ext)] = Backtick))

\* greedy body followed by \.(ext): the last index of the match, 0 if none
BodyMatchEnd(s, b, exts, quoted) ==
    LET dots == { k \in (b + 1)..BodyLimit(s, b, quoted) :
                     s[k] = "." /\ ExtsAt(s, k + 1, exts, quoted) # <<>> }
    IN  IF dots = {} THEN 0
        ELSE LET k == CHOOSE d \in dots : \A o \in dots : o <= d
             IN  k + Len(Head(ExtsAt(s, k + 1, exts, quoted)))

RECURSIVE NameRunEnd(_, _)
\* the last index of the run of [a-zA-Z0-9_-] starting at i (i - 1 if none)
NameRunEnd(s, i) ==
    IF i <= Len(s) /\ IsNameChar(s[i]) THEN NameRunEnd(s, i + 1) ELSE i - 1

\* one attempt of pattern pat at position i: [from, to, next], to = 0 if no match
MatchPatternAt(s, i, pat) ==
    LET none == [from |-> 0, to |-> 0, next |-> i + 1]
    IN  CASE pat = 1 ->
               IF s[i] = Backtick
               THEN LET e == BodyMatchEnd(s, i + 1, Exts1, TRUE)
                    IN  IF e = 0 THEN none ELSE [from |-> i + 1, to |-> e, next |-> e + 2]
               ELSE none
          [] pat = 2 ->
               IF WordBoundaryAt(s, i) /\ StartsWithAt(s, i, SrcPrefix)
               THEN LET e == BodyMatchEnd(s, i + Len(SrcPrefix), Exts2, FALSE)
                    IN  IF e = 0 THEN none ELSE [from |-> i, to |-> e, next |-> e + 1]
               ELSE none
          [] pat = 3 ->
               IF WordBoundaryAt(s, i) /\ StartsWithAt(s, i, TestPrefix)
               THEN LET e == BodyMatchEnd(s, i + Len(TestPrefix), Exts2, FALSE)
                    IN  IF e = 0 THEN none ELSE [from |-> i, to |-> e, next |-> e + 1]
               ELSE none
          [] OTHER ->
               LET r == NameRunEnd(s, i)
               IN  IF WordBoundaryAt(s, i) /\ r >= i /\ r + 1 <= Len(s) /\ s[r + 1] = "/"
                   THEN LET e == BodyMatchEnd(s, r + 2, Exts4, FALSE)
                        IN  IF e = 0 THEN none ELSE [from |-> i, to |-> e, next |-> e + 1]
                   ELSE none

RECURSIVE MatchAll(_, _, _)
\* matchAll: the captures of pattern pat in s, scanning from position i
MatchAll(s, i, pat) ==
    IF i > Len(s) THEN {}
    ELSE LET m == MatchPatternAt(s, i, pat)
         IN  IF m.to = 0 THEN MatchAll(s, i + 1, pat)
             ELSE {SubSeq(s, m.from, m.to)} \cup MatchAll(s, m.next, pat)

extractAffectedFilesFromTasks(tasks) ==
    UNION { MatchAll(tasks[t].content, 1, pat) : t \in 1..Len(tasks), pat \in 1..4 }

\* replace(/\\/g, '/')
SlashesOf(path) == [i \in 1..Len(path) |-> IF path[i] = "\\" THEN "/" ELSE path[i]]

isFileAffected(filePath, affectedFiles) ==
    \E affected \in affectedFiles :
        \/ SlashesOf(filePath) = SlashesOf(affected)
        \/ EndsWith(SlashesOf(filePath), <<"/">> \o SlashesOf(affected))

\* ------------------------------------------------------------------------
\* bash-analyzer.ts: a command is a sequence of characters
\* ------------------------------------------------------------------------
READONLY_FIRST ==
    { <<"c", "a", "t">>, <<"l", "e", "s", "s">>, <<"m", "o", "r", "e">>, <<"h", "e", "a", "d">>,
      <<"t", "a", "i", "l">>, <<"w", "c">>, <<"n", "l">>, <<"t", "a", "c">>, <<"r", "e", "v">>,
      <<"g", "r", "e", "p">>, <<"e", "g", "r", "e", "p">>, <<"f", "g", "r", "e", "p">>,
      <<"r", "g">>, <<"r", "i", "p", "g", "r", "e", "p">>, <<"a", "g">>, <<"a", "c", "k">>,
      <<"s", "o", "r", "t">>, <<"u", "n", "i", "q">>, <<"c", "u", "t">>,
      <<"p", "a", "s", "t", "e">>, <<"j", "o", "i", "n">>, <<"c", "o", "m", "m">>,
      <<"c", "o", "l", "u", "m", "n">>, <<"t", "r">>, <<"e", "x", "p", "a", "n", "d">>,
      <<"u", "n", "e", "x", "p", "a", "n", "d">>, <<"f", "o", "l", "d">>, <<"f", "m", "t">>,
      <<"p", "r">>, <<"s", "h", "u", "f">>, <<"t", "s", "o", "r", "t">>, <<"d", "i", "f", "f">>,
      <<"c", "m", "p">>, <<"s", "d", "i", "f", "f">>, <<"v", "i", "m", "d", "i", "f", "f">>,
      <<"m", "d", "5", "s", "u", "m">>, <<"s", "h", "a", "1", "s", "u", "m">>,
      <<"s", "h", "a", "2", "5", "6", "s", "u", "m">>,
      <<"s", "h", "a", "5", "1", "2", "s", "u", "m">>, <<"c", "k", "s", "u", "m">>,
      <<"s", "u", "m">>, <<"o", "d">>, <<"h", "e", "x", "d", "u", "m", "p">>, <<"x", "x", "d">>,
      <<"s", "t", "r", "i", "n", "g", "s">>, <<"f", "i", "l", "e">>,
      <<"r", "e", "a", "d", "e", "l", "f">>, <<"o", "b", "j", "d", "u", "m", "p">>, <<"n", "m">>,
      <<"l", "s">>, <<"d", "i", "r">>, <<"v", "d", "i", "r">>, <<"p", "w", "d">>,
      <<"w", "h", "i", "c", "h">>, <<"t", "y", "p", "e">>, <<"w", "h", "e", "r", "e", "i", "s">>,
      <<"l", "o", "c", "a", "t", "e">>, <<"f", "i", "n", "d">>,
      <<"b", "a", "s", "e", "n", "a", "m", "e">>, <<"d", "i", "r", "n", "a", "m", "e">>,
      <<"r", "e", "a", "d", "l", "i", "n", "k">>, <<"r", "e", "a", "l", "p", "a", "t", "h">>,
      <<"s", "t", "a", "t">>, <<"w", "h", "o", "a", "m", "i">>, <<"i", "d">>,
      <<"g", "r", "o", "u", "p", "s">>, <<"u", "s", "e", "r", "s">>, <<"w", "h", "o">>, <<"w">>,
      <<"l", "a", "s", "t">>, <<"l", "a", "s", "t", "l", "o", "g">>,
      <<"h", "o", "s", "t", "n", "a", "m", "e">>, <<"u", "n", "a", "m", "e">>,
      <<"a", "r", "c", "h">>, <<"l", "s", "b", "_", "r", "e", "l", "e", "a", "s", "e">>,
      <<"h", "o", "s", "t", "n", "a", "m", "e", "c", "t", "l">>, <<"d", "a", "t", "e">>,
      <<"c", "a", "l">>, <<"u", "p", "t", "i", "m", "e">>, <<"d", "f">>, <<"d", "u">>,
      <<"f", "r", "e", "e">>, <<"v", "m", "s", "t", "a", "t">>, <<"i", "o", "s", "t", "a", "t">>,
      <<"p", "s">>, <<"p", "g", "r", "e", "p">>, <<"p", "i", "d", "o", "f">>, <<"t", "o", "p">>,
      <<"h", "t", "o", "p">>, <<"i", "o", "t", "o", "p">>, <<"a", "t", "o", "p">>,
      <<"l", "s", "o", "f">>, <<"j", "o", "b", "s">>, <<"p", "s", "t", "r", "e", "e">>,
      <<"f", "u", "s", "e", "r">>, <<"n", "e", "t", "s", "t", "a", "t">>, <<"s", "s">>,
      <<"i", "p">>, <<"i", "f", "c", "o", "n", "f", "i", "g">>, <<"r", "o", "u", "t", "e">>,
      <<"a", "r", "p">>, <<"p", "i", "n", "g">>,
      <<"t", "r", "a", "c", "e", "r", "o", "u", "t", "e">>,
      <<"t", "r", "a", "c", "e", "p", "a", "t", "h">>, <<"m", "t", "r">>,
      <<"n", "s", "l", "o", "o", "k", "u", "p">>, <<"d", "i", "g">>, <<"h", "o", "s", "t">>,
      <<"w", "h", "o", "i", "s">>, <<"p", "r", "i", "n", "t", "e", "n", "v">>, <<"e", "n", "v">>,
      <<"s", "e", "t">>, <<"e", "x", "p", "o", "r", "t">>, <<"a", "l", "i", "a", "s">>,
      <<"h", "i", "s", "t", "o", "r", "y">>, <<"f", "c">>, <<"e", "c", "h", "o">>,
      <<"p", "r", "i", "n", "t", "f">>, <<"y", "e", "s">>, <<"s", "e", "q">>, <<"j", "o", "t">>,
      <<"t", "e", "s", "t">>, <<"[">>, <<"[", "[">>, <<"t", "r", "u", "e">>,
      <<"f", "a", "l", "s", "e">>, <<"b", "c">>, <<"d", "c">>, <<"e", "x", "p", "r">>,
      <<"f", "a", "c", "t", "o", "r">>, <<"u", "n", "i", "t", "s">>, <<"j", "q">>, <<"y", "q">>,
      <<"x", "m", "l", "s", "t", "a", "r", "l", "e", "t">>, <<"x", "m", "l", "l", "i", "n", "t">>,
      <<"x", "s", "l", "t", "p", "r", "o", "c">>, <<"b", "a", "t">>, <<"f", "d">>,
      <<"f", "z", "f">>, <<"t", "r", "e", "e">>, <<"n", "c", "d", "u">>, <<"e", "x", "a">>,
      <<"l", "s", "d">>, <<"t", "l", "d", "r">>, <<"c", "h", "e", "a", "t">>, <<"g", "i", "t">>,
      <<"a", "w", "k">>, <<"s", "e", "d">>, <<"g", "a", "w", "k">>, <<"m", "a", "w", "k">>,
      <<"g", "s", "e", "d">> }

WRITE_FIRST ==
    { <<"r", "m">>, <<"r", "m", "d", "i", "r">>, <<"u", "n", "l", "i", "n", "k">>,
      <<"s", "h", "r", "e", "d">>, <<"m", "v">>, <<"r", "e", "n", "a", "m", "e">>, <<"c", "p">>,
      <<"i", "n", "s", "t", "a", "l", "l">>, <<"d", "d">>, <<"m", "k", "d", "i", "r">>,
      <<"m", "k", "f", "i", "f", "o">>, <<"m", "k", "n", "o", "d">>,
      <<"m", "k", "t", "e", "m", "p">>, <<"t", "o", "u", "c", "h">>,
      <<"t", "r", "u", "n", "c", "a", "t", "e">>, <<"c", "h", "m", "o", "d">>,
      <<"c", "h", "o", "w", "n">>, <<"c", "h", "g", "r", "p">>, <<"u", "m", "a", "s", "k">>,
      <<"l", "n">>, <<"l", "i", "n", "k">>, <<"s", "y", "m", "l", "i", "n", "k">>,
      <<"s", "e", "t", "f", "a", "c", "l">>, <<"s", "e", "t", "f", "a", "t", "t", "r">>,
      <<"c", "h", "a", "t", "t", "r">>, <<"u", "s", "e", "r", "a", "d", "d">>,
      <<"u", "s", "e", "r", "d", "e", "l">>, <<"u", "s", "e", "r", "m", "o", "d">>,
      <<"g", "r", "o", "u", "p", "a", "d", "d">>, <<"g", "r", "o", "u", "p", "d", "e", "l">>,
      <<"p", "a", "s", "s", "w", "d">>, <<"c", "h", "p", "a", "s", "s", "w", "d">>,
      <<"s", "y", "s", "t", "e", "m", "c", "t", "l">>, <<"s", "e", "r", "v", "i", "c", "e">>,
      <<"a", "p", "t">>, <<"a", "p", "t", "-", "g", "e", "t">>, <<"d", "p", "k", "g">>,
      <<"s", "n", "a", "p">>, <<"y", "u", "m">>, <<"d", "n", "f">>, <<"r", "p", "m">>,
      <<"p", "i", "p">>, <<"p", "i", "p", "3">>, <<"n", "p", "m">>, <<"y", "a", "r", "n">>,
      <<"g", "e", "m">>, <<"c", "a", "r", "g", "o">>, <<"p", "n", "p", "m">>,
      <<"m", "a", "k", "e">>, <<"c", "m", "a", "k", "e">>, <<"n", "i", "n", "j", "a">>,
      <<"m", "e", "s", "o", "n">>, <<"s", "u", "d", "o">>, <<"d", "o", "a", "s">>, <<"s", "u">>,
      <<"c", "r", "o", "n", "t", "a", "b">>, <<"a", "t">>, <<"b", "a", "t", "c", "h">>,
      <<"k", "i", "l", "l">>, <<"p", "k", "i", "l", "l">>, <<"k", "i", "l", "l", "a", "l", "l">>,
      <<"t", "e", "e">> }

GIT_WRITE_SUBCOMMANDS ==
    { <<"a", "d", "d">>, <<"c", "o", "m", "m", "i", "t">>, <<"p", "u", "s", "h">>,
      <<"p", "u", "l", "l">>, <<"m", "e", "r", "g", "e">>, <<"r", "e", "b", "a", "s", "e">>,
      <<"c", "h", "e", "r", "r", "y", "-", "p", "i", "c", "k">>, <<"r", "e", "s", "e", "t">>,
      <<"c", "h", "e", "c", "k", "o", "u", "t">>, <<"s", "w", "i", "t", "c", "h">>,
      <<"r", "e", "s", "t", "o", "r", "e">>, <<"b", "r", "a", "n", "c", "h">>, <<"t", "a", "g">>,
      <<"s", "t", "a", "s", "h">>, <<"a", "p", "p", "l", "y">>, <<"p", "o", "p">>,
      <<"c", "l", "e", "a", "n">>, <<"r", "m">>, <<"m", "v">>,
      <<"s", "u", "b", "m", "o", "d", "u", "l", "e">>, <<"c", "l", "o", "n", "e">>,
      <<"i", "n", "i", "t">>, <<"c", "o", "n", "f", "i", "g">> }

\* (?:^|\s) ends right before position q
RedirBoundary(s, q) == q = 1 \/ IsSpace(s[q - 1])

RECURSIVE DigitRunEnd(_, _)
\* the last index of the run of digits starting at i (i - 1 if none)
DigitRunEnd(s, i) ==
    IF i <= Len(s) /\ s[i] \in DigitChars THEN DigitRunEnd(s, i + 1) ELSE i - 1

\* /(?:^|\s)(?:>>?|<<?|<<<)\s/
RedirBasic(s) ==
    \E q \in 1..Len(s) :
        /\ RedirBoundary(s, q)
        /\ \E op \in { <<">">>, <<">", ">">>, <<"<">>, <<"<", "<">>, <<"<", "<", "<">> } :
              /\ StartsWithAt(s, q, op)
              /\ q + Len(op) <= Len(s)
              /\ IsSpace(s[q + Len(op)])

\* /(?:^|\s)\d*>&?\d*(?:\s|$)/
RedirDescriptor(s) ==
    \E q \in 1..Len(s) :
        /\ RedirBoundary(s, q)
        /\ LET gt == DigitRunEnd(s, q) + 1
               amp == IF gt + 1 <= Len(s) /\ s[gt + 1] = "&" THEN gt + 1 ELSE gt
               last == DigitRunEnd(s, amp + 1)
           IN  /\ gt <= Len(s)
               /\ s[gt] = ">"
               /\ (last = Len(s) \/ IsSpace(s[last + 1]))

\* /(?:^|\s)&>/
RedirCombined(s) ==
    \E q \in 1..Len(s) : RedirBoundary(s, q) /\ StartsWithAt(s, q, <<"&", ">">>)

\* REDIR.test(s)
REDIR(s) == RedirBasic(s) \/ RedirDescriptor(s) \/ RedirCombined(s)

\* the length of the separator /(?<!\|)\|(?!\|)|&&|\|\|/ standing at position i, 0 if none
SeparatorAt(s, i) ==
    IF /\ s[i] = "|"
       /\ (i = 1 \/ s[i - 1] # "|")
       /\ (i = Len(s) \/ s[i + 1] # "|")
    THEN 1
    ELSE IF StartsWithAt(s, i, <<"&", "&">>) \/ StartsWithAt(s, i, <<"|", "|">>) THEN 2
    ELSE 0

RECURSIVE SplitSegments(_, _, _)
\* s.split(separator): the pieces from position i on, cur being the piece under way
SplitSegments(s, i, cur) ==
    IF i > Len(s) THEN <<cur>>
    ELSE IF SeparatorAt(s, i) > 0
         THEN <<cur>> \o SplitSegments(s, i + SeparatorAt(s, i), <<>>)
         ELSE SplitSegments(s, i + 1, Append(cur, s[i]))

IsQuote(c) == c \in {"\"", "'"}

RECURSIVE BareRunEnd(_, _)
\* the last index of the run of [^\s"'] starting at i (i - 1 if none)
BareRunEnd(s, i) ==
    IF i <= Len(s) /\ ~IsSpace(s[i]) /\ ~IsQuote(s[i]) THEN BareRunEnd(s, i + 1) ELSE i - 1

\* the index of the next occurrence of quote after position i, 0 if none
ClosingQuote(s, i, quote) ==
    LET js == { j \in (i + 1)..Len(s) : s[j] = quote }
    IN  IF js = {} THEN 0 ELSE CHOOSE j \in js : \A o \in js : j <= o

RECURSIVE SplitFrom(_, _)
\* splitCommand: /[^\s"']+|"([^"]*)"|'([^']*)'/g, pushing match[1] || match[2] || match[0]
SplitFrom(s, i) ==
    IF i > Len(s) THEN <<>>
    ELSE IF IsQuote(s[i])
         THEN LET j == ClosingQuote(s, i, s[i])
              IN  IF j = 0 THEN SplitFrom(s, i + 1)
                  ELSE IF j = i + 1 THEN <<SubSeq(s, i, j)>> \o SplitFrom(s, j + 1)
                  ELSE <<SubSeq(s, i + 1, j - 1)>> \o SplitFrom(s, j + 1)
         ELSE IF IsSpace(s[i]) THEN SplitFrom(s, i + 1)
         ELSE <<SubSeq(s, i, BareRunEnd(s, i))>> \o SplitFrom(s, BareRunEnd(s, i) + 1)

splitCommand(segment) == SplitFrom(segment, 1)

StartsWith(s, piece) == StartsWithAt(s, 1, piece)

Includes(s, piece) == \E i \in 1..Len(s) : StartsWithAt(s, i, piece)

RECURSIVE JoinWithSpace(_)
\* args.join(' ')
JoinWithSpace(args) ==
    IF args = <<>> THEN <<>>
    ELSE IF Len(args) = 1 THEN args[1]
    ELSE args[1] \o <<" ">> \o JoinWithSpace(Tail(args))

\* a variant that inspects the arguments of git only
checkCommandArguments_Mut(parts) ==
    IF parts = <<>> THEN TRUE
    ELSE ~(/\ ToLower(parts[1]) = <<"g", "i", "t">>
           /\ Tail(parts) # <<>>
           /\ ToLower(parts[2]) \in GIT_WRITE_SUBCOMMANDS)

\* checkCommandArguments: FALSE when the arguments make the command a write
checkCommandArguments(parts) ==
    IF parts = <<>> THEN TRUE
    ELSE
    LET cmd == ToLower(parts[1])
        args == Tail(parts)
        script == JoinWithSpace(args)
    IN  IF /\ cmd \in { <<"s", "e", "d">>, <<"g", "s", "e", "d">> }
           /\ \E a \in 1..Len(args) : StartsWith(args[a], <<"-", "i">>) \/ args[a] = <<"-", "-", "i", "n", "-", "p", "l", "a", "c", "e">>
        THEN FALSE
        ELSE IF /\ cmd \in { <<"a", "w", "k">>, <<"g", "a", "w", "k">>, <<"m", "a", "w", "k">> }
                /\ \/ Includes(script, <<"p", "r", "i", "n", "t", " ", ">">>)
                   \/ Includes(script, <<"p", "r", "i", "n", "t", " ", ">", ">">>)
                   \/ Includes(script, <<"p", "r", "i", "n", "t", "f", " ", ">">>)
                   \/ Includes(script, <<"p", "r", "i", "n", "t", "f", " ", ">", ">">>)
        THEN FALSE
        ELSE IF /\ cmd = <<"f", "i", "n", "d">>
                /\ \/ \E a \in 1..Len(args) : args[a] = <<"-", "d", "e", "l", "e", "t", "e">>
                   \/ \E a \in 1..Len(args) :
                         /\ args[a] \in { <<"-", "e", "x", "e", "c">>, <<"-", "e", "x", "e", "c", "d", "i", "r">> }
                         /\ a + 1 <= Len(args)
                         /\ ToLower(args[a + 1]) \in
                                WRITE_FIRST \cup { <<"r", "m">>, <<"m", "v">>, <<"c", "p">>, <<"s", "h", "r", "e", "d">> }
        THEN FALSE
        ELSE IF /\ cmd = <<"x", "a", "r", "g", "s">>
                /\ \/ \E a \in 1..Len(args) : args[a] \in WRITE_FIRST
                   \/ \E a \in 1..Len(args) :
                         /\ args[a] = <<"s", "e", "d">>
                         /\ \A b \in 1..(a - 1) : args[b] # <<"s", "e", "d">>
                         /\ a + 1 <= Len(args)
                         /\ StartsWith(args[a + 1], <<"-", "i">>)
        THEN FALSE
        ELSE IF /\ cmd = <<"g", "i", "t">>
                /\ args # <<>>
                /\ ToLower(args[1]) \in GIT_WRITE_SUBCOMMANDS
        THEN FALSE
        ELSE TRUE

\* parts[1]?.toLowerCase() || ''
SubcommandOf(parts) == IF Len(parts) >= 2 THEN ToLower(parts[2]) ELSE <<>>

\* the verdict of the loop body of isBashReadOnly on one segment:
\* "continue" (go on with the next segment) or "false" (return false)
SegmentVerdict(segment, extrasafe) ==
    LET parts == splitCommand(segment)
        first == ToLower(parts[1])
    IN  IF segment = <<>> \/ parts = <<>> THEN "continue"
        ELSE IF first = <<"c", "d">> THEN "continue"
        ELSE IF first \in { <<"p", "i", "p">>, <<"p", "i", "p", "3">> }
             THEN IF SubcommandOf(parts) \in
                        { <<"s", "h", "o", "w">>, <<"l", "i", "s", "t">>, <<"s", "e", "a", "r", "c", "h">>, <<"c", "h", "e", "c", "k">>, <<"f", "r", "e", "e", "z", "e">>, <<"h", "e", "l", "p">> }
                  THEN "continue" ELSE "false"
        ELSE IF first \in { <<"n", "p", "m">>, <<"y", "a", "r", "n">>, <<"p", "n", "p", "m">> }
             THEN IF SubcommandOf(parts) \in
                        { <<"l", "i", "s", "t">>, <<"l", "s">>, <<"v", "i", "e", "w">>, <<"s", "h", "o", "w">>, <<"s", "e", "a", "r", "c", "h">>, <<"h", "e", "l", "p">> }
                  THEN "continue" ELSE "false"
        ELSE IF first \in { <<"p", "y", "t", "h", "o", "n">>, <<"p", "y", "t", "h", "o", "n", "3">> }
             THEN IF Len(parts) > 1 /\ parts[2] \in { <<"-", "c">>, <<"-", "m">> }
                  THEN "continue" ELSE "false"
        ELSE IF first \in WRITE_FIRST THEN "false"
        ELSE IF ~checkCommandArguments(parts) THEN "false"
        ELSE IF first \notin READONLY_FIRST /\ extrasafe THEN "false"
        ELSE "continue"

\* a variant that classifies the first segment only
isBashReadOnlyExtra_Mut(command, extrasafe) ==
    LET s == Trim(command)
        segments == SplitSegments(s, 1, <<>>)
    IN  IF s = <<>> THEN TRUE
        ELSE IF REDIR(s) THEN FALSE
        ELSE SegmentVerdict(Trim(segments[1]), extrasafe) = "continue"

\* isBashReadOnly(command, extrasafe)
isBashReadOnlyExtra(command, extrasafe) ==
    LET s == Trim(command)
        segments == SplitSegments(s, 1, <<>>)
    IN  IF s = <<>> THEN TRUE
        ELSE IF REDIR(s) THEN FALSE
        ELSE \A k \in 1..Len(segments) : SegmentVerdict(Trim(segments[k]), extrasafe) = "continue"

\* isBashReadOnly(command) with the default extrasafe = true
isBashReadOnly(command) == isBashReadOnlyExtra(command, TRUE)

\* ------------------------------------------------------------------------
\* State store (shared-state.ts).  The state file is [exists, doc]; doc is
\* the parsed JSON document and is meaningful only when the file exists.
\* ------------------------------------------------------------------------
getDefaultState ==
    [ mode |-> "discussion",
      active_changes |-> <<>>,
      proposal_keywords |-> <<<<"p", "r", "o", "p", "o", "s", "e">>>>,
      implementation_keywords |-> <<<<"a", "p", "p", "l", "y">>, <<"i", "n", "i", "t">>>>,
      pause_keywords |-> <<<<"p", "a", "u", "s", "e">>>>,
      archive_keywords |-> <<<<"a", "r", "c", "h", "i", "v", "e">>, <<"d", "o", "n", "e">>, <<"c", "a", "n", "c", "e", "l">>>>,
      review_agents_enabled |-> TRUE,
      worklog_enabled |-> TRUE ]

NoStateFile == [exists |-> FALSE, doc |-> getDefaultState]

\* loadState: any failure of the read gives the default state
\* (a variant that returns what it could read without the fallback)
loadState_Mut(file, readFails) == file.doc

loadState(file, readFails) ==
    IF ~file.exists \/ readFails THEN getDefaultState ELSE file.doc

\* saveState: the temporary file is renamed over the state file
saveState(state) == [exists |-> TRUE, doc |-> state]

\* findActiveChangeForBranch: the index of the first active change of the
\* branch, 0 for null
\* (a variant that compares the change id with the branch)
findActiveChangeForBranch_Mut(state, branch) ==
    LET hits == { i \in 1..Len(state.active_changes) : state.active_changes[i].changeId = branch }
    IN  IF hits = {} THEN 0 ELSE CHOOSE i \in hits : \A o \in hits : i <= o

findActiveChangeForBranch(state, branch) ==
    LET hits == { i \in 1..Len(state.active_changes) : state.active_changes[i].branch = branch }
    IN  IF hits = {} THEN 0 ELSE CHOOSE i \in hits : \A o \in hits : i <= o

\* upsertActiveChange: load, replace the entry of the same changeId or push, save
upsertActiveChange(file, activeChange) ==
    LET state == loadState(file, FALSE)
        hits == { i \in 1..Len(state.active_changes) :
                     state.active_changes[i].changeId = activeChange.changeId }
    IN  IF hits # {}
        THEN saveState([state EXCEPT
                 !.active_changes[CHOOSE i \in hits : \A o \in hits : i <= o] = activeChange])
        ELSE saveState([state EXCEPT !.active_changes = Append(@, activeChange)])

\* findChange: exact directory name, else the only directory whose lower-cased
\* name contains the lower-cased id, else null (<<>>)
\* (a variant that takes some directory when several contain the id)
findChange_Mut(changeId) ==
    LET fuzzy == { d \in ChangeDirs : Includes(ToLower(d), ToLower(changeId)) }
    IN  IF changeId \in ChangeDirs THEN changeId
        ELSE IF fuzzy # {} THEN CHOOSE d \in fuzzy : TRUE
        ELSE <<>>

findChange(changeId) ==
    LET fuzzy == { d \in ChangeDirs : Includes(ToLower(d), ToLower(changeId)) }
    IN  IF changeId \in ChangeDirs THEN changeId
        ELSE IF Cardinality(fuzzy) = 1 THEN CHOOSE d \in fuzzy : TRUE
        ELSE <<>>

\* ------------------------------------------------------------------------
\* Tool events.  parameters is [present, todosIsArray, todos, file_path,
\* notebook_path, edits, command]; a field the event does not carry holds
\* the empty sequence.  NotAString is a value of another JavaScript type.
\* ------------------------------------------------------------------------
NotAString == <<"not-a-string">>

NoParams ==
    [ present |-> FALSE, todosIsArray |-> FALSE, todos |-> <<>>, file_path |-> <<>>,
      notebook_path |-> <<>>, edits |-> <<>>, command |-> <<>> ]

EmptyParams == [NoParams EXCEPT !.present = TRUE]

TodoParams(todos) == [EmptyParams EXCEPT !.todosIsArray = TRUE, !.todos = todos]
FileParams(path) == [EmptyParams EXCEPT !.file_path = path]
NotebookParams(path) == [EmptyParams EXCEPT !.notebook_path = path]
EditsParams(edits) == [EmptyParams EXCEPT !.edits = edits]
CommandParams(command) == [EmptyParams EXCEPT !.command = command]

ToolEvent(tool, parameters) == [tool |-> tool, parameters |-> parameters]
NoEvent == ToolEvent("", NoParams)

\* todos.map((todo, index) => ({content, completed: status === 'completed', line: index + 1}))
TasksOfTodos(todos) ==
    [i \in 1..Len(todos) |->
        [ hasContent |-> todos[i].hasContent,
          content |-> todos[i].content,
          completed |-> todos[i].status = "completed",
          line |-> i ]]

\* ------------------------------------------------------------------------
\* The enforcement gate (openspec-enforce.ts).  A verdict is
\* [action, message, raised]: message names the text built by the code ("" for
\* none), raised tells that some step of the evaluation raised and was caught.
\* ------------------------------------------------------------------------
Allow == [action |-> "allow", message |-> "", raised |-> FALSE]
AllowRaised == [action |-> "allow", message |-> "", raised |-> TRUE]
\* (a variant that answers a bare block)
Block_Mut(message) == [action |-> "block", message |-> "", raised |-> FALSE]

Block(message) == [action |-> "block", message |-> message, raised |-> FALSE]
\* an exception leaving the function: main answers it with allow
Threw == [action |-> "throw", message |-> "", raised |-> TRUE]
NoResponse == [action |-> "", message |-> "", raised |-> FALSE]

\* a variant that treats a completion change as a scope change too
enforceTodoWrite_Mut(activeChange, params) ==
    IF ~params.present THEN AllowRaised
    ELSE IF ~params.todosIsArray THEN Allow
    ELSE LET diff == compareApprovedPlan(activeChange.approved_todos, TasksOfTodos(params.todos))
         IN  IF diff.threw THEN AllowRaised
             ELSE IF diff.added # <<>> \/ diff.removed # <<>> \/ diff.modified # <<>>
                  THEN Block("formatTodoWriteViolation")
             ELSE Allow

enforceTodoWrite(activeChange, params) ==
    IF ~params.present THEN AllowRaised
    ELSE IF ~params.todosIsArray THEN Allow
    ELSE LET diff == compareApprovedPlan(activeChange.approved_todos, TasksOfTodos(params.todos))
         IN  IF diff.threw THEN AllowRaised
             ELSE IF diff.added # <<>> \/ diff.removed # <<>>
                  THEN Block("formatTodoWriteViolation")
             ELSE Allow

\* getFilePathFromParams: [threw, path], path = <<>> for null
getFilePathFromParams(tool, params) ==
    CASE tool \in {"Write", "Edit"} -> [threw |-> FALSE, path |-> params.file_path]
      [] tool = "MultiEdit" ->
           IF params.edits = <<>> THEN [threw |-> FALSE, path |-> <<>>]
           ELSE IF ~params.edits[1].isObject THEN [threw |-> TRUE, path |-> <<>>]
           ELSE [threw |-> FALSE, path |-> params.edits[1].file_path]
      [] tool = "NotebookEdit" -> [threw |-> FALSE, path |-> params.notebook_path]
      [] OTHER -> [threw |-> FALSE, path |-> <<>>]

\* normalizePath: drop a leading "./" or ".\", turn "\" into "/", drop one leading "/"
normalizePath(filePath) ==
    LET undotted == IF Len(filePath) >= 2 /\ filePath[1] = "." /\ filePath[2] \in {"\\", "/"}
                    THEN SubSeq(filePath, 3, Len(filePath))
                    ELSE filePath
        slashed == SlashesOf(undotted)
    IN  IF slashed # <<>> /\ slashed[1] = "/" THEN Tail(slashed) ELSE slashed

ChangeDirPath(changeId) == <<"o", "p", "e", "n", "s", "p", "e", "c", "/", "c", "h", "a", "n", "g", "e", "s", "/">> \o changeId
ProposalPath(changeId) == ChangeDirPath(changeId) \o <<"/", "p", "r", "o", "p", "o", "s", "a", "l", ".", "m", "d">>
TasksPath(changeId) == ChangeDirPath(changeId) \o <<"/", "t", "a", "s", "k", "s", ".", "m", "d">>

\* a variant that protects tasks.md only
isProtectedChangeFile_Mut(filePath, activeChange) ==
    \E protectedFile \in { TasksPath(activeChange.changeId) } :
        \/ normalizePath(filePath) = normalizePath(protectedFile)
        \/ EndsWith(normalizePath(filePath), <<"/">> \o normalizePath(protectedFile))

isProtectedChangeFile(filePath, activeChange) ==
    \E protectedFile \in { ProposalPath(activeChange.changeId), TasksPath(activeChange.changeId) } :
        \/ normalizePath(filePath) = normalizePath(protectedFile)
        \/ EndsWith(normalizePath(filePath), <<"/">> \o normalizePath(protectedFile))

\* enforceFileEdit; tasksDocFails: reading the tasks.md of the change raises
enforceFileEdit(activeChange, tool, params, tasksDocFails) ==
    IF ~params.present THEN AllowRaised
    ELSE LET target == getFilePathFromParams(tool, params)
         IN  IF target.threw THEN AllowRaised
             ELSE IF target.path = <<>> THEN Allow
             ELSE IF target.path = NotAString THEN AllowRaised
             ELSE IF isProtectedChangeFile(normalizePath(target.path), activeChange)
                  THEN Block("formatProtectedFileViolation")
             ELSE IF tasksDocFails \/ activeChange.changeId \notin ChangeDirs THEN AllowRaised
             ELSE IF isFileAffected(normalizePath(target.path),
                         extractAffectedFilesFromTasks(
                             parseTasksFromContent(TasksMd[activeChange.changeId])))
                  THEN Allow
             ELSE Allow

WriteTools == {"Write", "Edit", "MultiEdit", "TodoWrite", "NotebookEdit"}

\* enforceDiscussionMode (strict file only)
\* (a variant that takes the file tools only for write tools)
enforceDiscussionMode_Mut(tool, params) ==
    IF tool \in WriteTools \ {"TodoWrite"} THEN Block("Discussion Mode: file editing")
    ELSE IF tool = "Bash"
         THEN IF ~params.present THEN Threw
              ELSE IF params.command = <<>> THEN Allow
              ELSE IF params.command = NotAString THEN Threw
              ELSE IF ~isBashReadOnly(params.command)
                   THEN Block("Discussion Mode: write-like bash")
              ELSE Allow
    ELSE Allow

enforceDiscussionMode(tool, params) ==
    IF tool \in WriteTools THEN Block("Discussion Mode: file editing")
    ELSE IF tool = "Bash"
         THEN IF ~params.present THEN Threw
              ELSE IF params.command = <<>> THEN Allow
              ELSE IF params.command = NotAString THEN Threw
              ELSE IF ~isBashReadOnly(params.command)
                   THEN Block("Discussion Mode: write-like bash")
              ELSE Allow
    ELSE Allow

\* the switch of processToolUse on the tool name, with an active change
\* (a variant that sends every tool but TodoWrite to enforceFileEdit)
EnforceActive_Mut(activeChange, tool, params, tasksDocFails) ==
    IF tool = "TodoWrite" THEN enforceTodoWrite(activeChange, params)
    ELSE IF tool \in {"Write", "Edit", "MultiEdit", "NotebookEdit", "Bash"}
         THEN Block("formatProtectedFileViolation")
    ELSE Allow

EnforceActive(activeChange, tool, params, tasksDocFails) ==
    IF tool = "TodoWrite" THEN enforceTodoWrite(activeChange, params)
    ELSE IF tool \in {"Write", "Edit", "MultiEdit", "NotebookEdit"}
         THEN enforceFileEdit(activeChange, tool, params, tasksDocFails)
    ELSE Allow

\* the faults of the environment during one evaluation of the gate
Faults == {"none", "stateRead", "git", "tasksDoc", "debugLog"}

\* branchExists: git rev-parse --verify succeeds for the branches of the
\* repository (a variant that answers true for every name)
branchExists_Mut(branchName, all) == TRUE

branchExists(branchName, all) == branchName \in all

\* getCurrentBranch: "unknown" when both git attempts fail
getCurrentBranch(branch, gitFails) == IF gitFails THEN UnknownBranch ELSE branch

\* processToolUse; strict tells which of the two files of the gate runs
\* (a variant that enforces the plan only when the mode field says
\* implementation)
processToolUse_Mut(strict, ev, file, branch, flt) ==
    LET state == loadState(file, flt = "stateRead")
        idx == IF state.mode = "implementation"
               THEN findActiveChangeForBranch(state, getCurrentBranch(branch, flt = "git"))
               ELSE 0
        verdict == IF idx = 0
                   THEN IF strict THEN enforceDiscussionMode(ev.tool, ev.parameters) ELSE Allow
                   ELSE EnforceActive(state.active_changes[idx], ev.tool, ev.parameters,
                                      flt = "tasksDoc")
    IN  [verdict EXCEPT !.raised = @ \/ flt \in {"stateRead", "git"}]

processToolUse(strict, ev, file, branch, flt) ==
    LET state == loadState(file, flt = "stateRead")
        idx == findActiveChangeForBranch(state, getCurrentBranch(branch, flt = "git"))
        verdict == IF idx = 0
                   THEN IF strict THEN enforceDiscussionMode(ev.tool, ev.parameters) ELSE Allow
                   ELSE EnforceActive(state.active_changes[idx], ev.tool, ev.parameters,
                                      flt = "tasksDoc")
    IN  [verdict EXCEPT !.raised = @ \/ flt \in {"stateRead", "git"}]

\* main: the response written to stdout.  In the strict file every step is
\* preceded by an append to the debug log, inside the try block; the append
\* of the catch block fails as well and main().catch answers.
main(strict, ev, file, branch, flt) ==
    IF strict /\ flt = "debugLog" THEN AllowRaised
    ELSE LET verdict == processToolUse(strict, ev, file, branch, flt)
         IN  IF verdict.action = "throw" THEN AllowRaised ELSE verdict

\* ------------------------------------------------------------------------
\* The inputs of the model
\* ------------------------------------------------------------------------
Todo(content, status) == [hasContent |-> TRUE, content |-> content, status |-> status]
\* a todo sent without content
TodoWithoutContent == [hasContent |-> FALSE, content |-> <<>>, status |-> "pending"]

TodoInputs ==
    { Todo(TextA, "pending"), Todo(TextA, "completed"), Todo(TextAVariant, "in_progress"),
      Todo(TextB, "pending"), TodoWithoutContent }

TodoPayloads == SeqsUpTo(TodoInputs, MaxTodos)

PathPrefixes ==
    { <<>>,
      <<".", "/">>,
      <<".", "\\">>,
      <<"/">>,
      <<"/", ".", "/">>,
      <<".", "/", "/">>,
      <<"w", "/">>,
      <<"w">>,
      <<"C", ":", "\\", "w", "\\">> }

PathTails ==
    { ProposalPath(ChangeOne), TasksPath(ChangeOne), TasksPath(ChangeTwo),
      <<"o", "p", "e", "n", "s", "p", "e", "c", "\\", "c", "h", "a", "n", "g", "e", "s", "\\", "c", "1", "\\", "t", "a", "s", "k", "s", ".", "m", "d">>,
      ChangeDirPath(ChangeOne) \o <<"/", "d", "e", "s", "i", "g", "n", ".", "m", "d">>,
      <<"c", "h", "a", "n", "g", "e", "s", "/", "c", "1", "/", "t", "a", "s", "k", "s", ".", "m", "d">>,
      <<"t", "/", "a", ".", "t", "s">>,
      <<"x", "/", "b", ".", "t", "s">> }

PathInputs == { prefix \o tail : prefix \in PathPrefixes, tail \in PathTails }

FewPaths == { TasksPath(ChangeOne), <<".", "/">> \o ProposalPath(ChangeOne), TextA, <<>>, NotAString }

Edit(path) == [isObject |-> TRUE, file_path |-> path]
\* an entry of the edits array that is null
NullEdit == [isObject |-> FALSE, file_path |-> <<>>]

EditInputs == { Edit(TasksPath(ChangeOne)), Edit(TextA), Edit(<<>>), NullEdit }

CommandInputs ==
    { <<>>, NotAString, <<"l", "s", " ", "-", "l", "a">>, <<"g", "i", "t", " ", "s", "t", "a", "t", "u", "s">>, <<"r", "m", " ", "-", "r", "f", " ", "/", "t", "m", "p", "/", "x">>, <<"g", "i", "t", " ", "c", "o", "m", "m", "i", "t", " ", "-", "m", " ", "x">>, <<"e", "c", "h", "o", " ", "h", "i", " ", ">", " ", "o", "u", "t", ".", "t", "x", "t">>, <<"e", "c", "h", "o", " ", "h", "i", " ", "|", " ", "g", "r", "e", "p", " ", "h">> }

OtherTools == {"Bash", "Read", "Task"}

TodoWriteEvents ==
    { ToolEvent("TodoWrite", TodoParams(todos)) : todos \in TodoPayloads }
        \cup { ToolEvent("TodoWrite", EmptyParams), ToolEvent("TodoWrite", NoParams) }

FileEditEvents ==
    { ToolEvent("Write", FileParams(path)) : path \in PathInputs }
        \cup { ToolEvent("Edit", FileParams(path)) : path \in FewPaths }
        \cup { ToolEvent("NotebookEdit", NotebookParams(path)) : path \in FewPaths }
        \cup { ToolEvent(tool, NoParams) : tool \in {"Write", "NotebookEdit"} }

MultiEditEvents ==
    { ToolEvent("MultiEdit", EditsParams(edits)) : edits \in SeqsUpTo(EditInputs, MaxEdits) }

OtherToolEvents ==
    { ToolEvent(tool, CommandParams(command)) : tool \in OtherTools, command \in CommandInputs }
        \cup { ToolEvent("Bash", NoParams) }

\* the events evaluated under a fault of the environment
FaultEvents ==
    { ToolEvent("TodoWrite", TodoParams(<<Todo(TextA, "completed")>>)),
      ToolEvent("TodoWrite", TodoParams(<<Todo(TextB, "pending")>>)),
      ToolEvent("Write", FileParams(TasksPath(ChangeOne))),
      ToolEvent("Write", FileParams(TextA)),
      ToolEvent("MultiEdit", EditsParams(<<Edit(TextA), Edit(ProposalPath(ChangeOne))>>)),
      ToolEvent("Bash", CommandParams(<<"r", "m", " ", "-", "r", "f", " ", "/", "t", "m", "p", "/", "x">>)),
      ToolEvent("Bash", CommandParams(<<"l", "s", " ", "-", "l", "a">>)),
      ToolEvent("Read", FileParams(TextA)) }

\* the ids a start message names: a directory, a part of one directory name,
\* a part of both directory names in the other case, a second directory, no
\* directory
DispatchIds == { ChangeOne, <<"1">>, <<"C">>, ChangeTwo, <<"c", "3">> }

\* the start messages the user writes
DispatchMessages ==
    { <<"a", "p", "p", "l", "y", ":", " ">> \o id : id \in DispatchIds \ {ChangeOne} }
        \cup { <<"I", "N", "I", "T", ":">> \o ChangeOne, <<"a", "p", "p", "l", "y", ":">> }

\* the fault that strikes during one start dispatch: the changes directory
\* cannot be listed, git cannot check the branch out, tasks.md or proposal.md
\* cannot be read, the state file cannot be written
DispatchFaults == {"none", "changesDir", "checkout", "tasksDoc", "stateWrite"}

\* the work items the user creates a branch for
GitBranchIds == {ChangeOne}

PlanTaskInputs ==
    { <<TextA, FALSE>>, <<TextAVariant, TRUE>>, <<TextB, FALSE>>, <<<<"c">>, TRUE>> }

\* the task sequences given to compareApprovedPlan on its own
PlanSeqs ==
    { [i \in 1..Len(pairs) |-> Task(pairs[i][1], pairs[i][2], i)] :
          pairs \in SeqsUpTo(PlanTaskInputs, MaxPlanLen) }

\* ------------------------------------------------------------------------
\* State
\* ------------------------------------------------------------------------
VARIABLES
    strict,          \* which file of the gate is installed: the strict one or the permissive one
    stateFile,       \* openspec/state/openspec-state.json
    currentBranch,   \* the branch git has checked out
    branches,        \* the branches of the repository
    event,           \* the tool event the gate evaluated last (NoEvent: none pending)
    fault,           \* the fault of the environment during that evaluation or dispatch
    response,        \* the response the gate wrote for it
    userReply,       \* the response of the user-message hook to the last message
    userMessage,     \* that message (NoMessage: the last step was not a dispatch)
    beforeDispatch,  \* the state file and the repository as that dispatch found them
    lockedKeys,      \* per work item, the task keys captured when it was locked
    planA, planB,    \* the arguments of a stand-alone compareApprovedPlan
    planDiff,        \* its result
    planPc,          \* "input" before the call, "done" after it, "off" when unused
    firstSubmission, \* the todo-list write submitted first and its verdict (NoSubmission: none)
    resubmitted,     \* the event under evaluation is that todo-list write, submitted again
    shCommand,       \* the command given to a stand-alone isBashReadOnly
    shExtrasafe,     \* its extrasafe argument
    shReadOnly,      \* its result
    shPc,            \* "input" before the call, "done" after it, "off" when unused
    msgText,         \* the message given to a stand-alone processUserMessage
    msgState,        \* the state it loads
    msgHandler,      \* the handler it calls ("allow": none)
    msgExtract,      \* the text the handler extracts from the message
    msgPc,           \* "input" before the call, "done" after it, "off" when unused
    arMessage,       \* the message given to a stand-alone handleArchiveKeyword
    arState,         \* the state it loads
    arBranch,        \* the branch git reports to it
    arDirs,          \* the directories of openspec/changes it lists
    arReply,         \* its response
    arPc,            \* "input" before the call, "done" after it, "off" when unused
    stFile,          \* the state file of the stand-alone state store
    stTemp,          \* the temporary file saveState writes next to it
    stOp,            \* the store operation in progress (NoOp: none)
    stMem,           \* the state that operation holds in memory
    stBefore,        \* the state file as that operation found it
    stResult,        \* how the last operation ended, and what a load returned
    stPc,            \* the position of the operation ("off" when unused)
    ivHook,          \* the hook of a stand-alone invocation: "gate" or "dispatcher"
    ivChannel,       \* its stdin: "closes", "open" (never closes) or "error"
    ivInput,         \* what is written to its stdin
    ivFault,         \* the fault of the environment during the invocation
    ivRead,          \* what readStdin returned
    ivEval,          \* what the evaluation of the input returns
    ivHandler,       \* the handler the dispatcher called ("": none)
    ivOut,           \* the responses written to stdout, in order
    ivPc,            \* the position of main ("off" when unused)
    postEvent,       \* the post-invocation event of a stand-alone PostToolUse run
    postBefore,      \* the state file before that run
    ccFile,          \* the state file two concurrent hook processes share
    ccTemp,          \* the temporary files beside it, by name
    ccProc           \* the two processes: position, loaded state, temporary file

vars == << strict, stateFile, currentBranch, branches, event, fault, response, userReply,
           userMessage, beforeDispatch, lockedKeys, planA, planB, planDiff, planPc, firstSubmission, resubmitted,
           shCommand, shExtrasafe, shReadOnly, shPc,
           msgText, msgState, msgHandler, msgExtract, msgPc,
           arMessage, arState, arBranch, arDirs, arReply, arPc,
           stFile, stTemp, stOp, stMem, stBefore, stResult, stPc,
           ivHook, ivChannel, ivInput, ivFault, ivRead, ivEval, ivHandler, ivOut, ivPc,
           postEvent, postBefore, ccFile, ccTemp, ccProc >>

hookVars == << strict, stateFile, currentBranch, branches, event, fault, response, userReply,
               userMessage, beforeDispatch, lockedKeys >>
\* the variables of the specifications that exercise one operation on its own
shVars == << shCommand, shExtrasafe, shReadOnly, shPc >>
msgVars == << msgText, msgState, msgHandler, msgExtract, msgPc >>
arVars == << arMessage, arState, arBranch, arDirs, arReply, arPc >>
stVars == << stFile, stTemp, stOp, stMem, stBefore, stResult, stPc >>
ivVars == << ivHook, ivChannel, ivInput, ivFault, ivRead, ivEval, ivHandler, ivOut, ivPc >>
poVars == << postEvent, postBefore >>
ccVars == << ccFile, ccTemp, ccProc >>
auxVars == << arVars, stVars, ivVars, poVars, ccVars >>
planVars == << planA, planB, planDiff, planPc, firstSubmission, resubmitted, shVars, msgVars,
               auxVars >>

NoSubmission == [event |-> NoEvent, action |-> ""]

\* a response of the user-message hook; changeId is the work item its context
\* names (<<>>: none) and text the description or note it quotes (<<>>: none)
NoReply == [action |-> "", context |-> "", changeId |-> <<>>, text |-> <<>>]
Inject(context) == [action |-> "inject", context |-> context, changeId |-> <<>>, text |-> <<>>]
InjectArchiving(changeId) ==
    [action |-> "inject", context |-> "archiving change", changeId |-> changeId, text |-> <<>>]
InjectProposal(description) ==
    [action |-> "inject", context |-> "detected proposal keyword", changeId |-> <<>>,
     text |-> description]
InjectWorklog(changeId, note) ==
    [action |-> "inject", context |-> "generating worklog checkpoint", changeId |-> changeId,
     text |-> note]
\* what main answers when processUserMessage raised, and what processUserMessage
\* returns for a message without a keyword
AllowReply == [action |-> "allow", context |-> "", changeId |-> <<>>, text |-> <<>>]
NoMessage == <<>>
NoDispatch == [stateFile |-> NoStateFile, currentBranch |-> <<>>, branches |-> {}]

\* the stand-alone handleArchiveKeyword, unused
ArchiveOff ==
    /\ arMessage = <<>>
    /\ arState = getDefaultState
    /\ arBranch = MainBranch
    /\ arDirs = {}
    /\ arReply = NoReply
    /\ arPc = "off"

\* a file of the state directory: shape is "missing", "json" (a complete JSON
\* document), "partial" (a document cut short) or "garbage" (no JSON); value
\* is the document and layout its white space
NoContent == [shape |-> "missing", value |-> getDefaultState, layout |-> ""]
NoEntry == [changeId |-> <<>>, branch |-> <<>>, approved_todos |-> <<>>]
NoOp == [name |-> "", entry |-> NoEntry, fault |-> "none"]
NoResult == [outcome |-> "", state |-> getDefaultState, saveFailed |-> FALSE]

\* what stdin carries: nothing, a text that is no JSON, or a JSON document
\* with a tool event or a message
NoInput == [kind |-> "empty", event |-> NoEvent, message |-> <<>>]

\* no evaluation
NoEval == [throws |-> FALSE, handler |-> "", response |-> NoResponse]

\* the stand-alone invocation, unused
InvokeOff ==
    /\ ivHook = ""
    /\ ivChannel = ""
    /\ ivInput = NoInput
    /\ ivFault = "none"
    /\ ivRead = NoInput
    /\ ivEval = NoEval
    /\ ivHandler = ""
    /\ ivOut = <<>>
    /\ ivPc = "off"

\* no post-invocation event
NoPost == [tool |-> "", parameters |-> NoParams, success |-> FALSE]

\* the stand-alone PostToolUse run, unused
PostOff ==
    /\ postEvent = NoPost
    /\ postBefore = NoStateFile

\* the two concurrent processes, unused
RaceOff ==
    /\ ccFile = NoContent
    /\ ccTemp = <<>>
    /\ ccProc = <<>>

\* the stand-alone state store, unused
StoreOff ==
    /\ stFile = NoContent
    /\ stTemp = NoContent
    /\ stOp = NoOp
    /\ stMem = getDefaultState
    /\ stBefore = NoContent
    /\ stResult = NoResult
    /\ stPc = "off"

\* the state of a fresh project: no state file, the main branch checked out
HookInit ==
    /\ strict \in BOOLEAN
    /\ stateFile = NoStateFile
    /\ currentBranch = MainBranch
    /\ branches = {MainBranch}
    /\ event = NoEvent
    /\ fault = "none"
    /\ response = NoResponse
    /\ userReply = NoReply
    /\ userMessage = NoMessage
    /\ beforeDispatch = NoDispatch
    /\ lockedKeys = [id \in ChangeDirs |-> {}]

Init ==
    /\ HookInit
    /\ planA = <<>>
    /\ planB = <<>>
    /\ planDiff = EmptyDiff
    /\ planPc = "off"
    /\ firstSubmission = NoSubmission
    /\ resubmitted = FALSE
    /\ shCommand = <<>>
    /\ shExtrasafe = TRUE
    /\ shReadOnly = TRUE
    /\ shPc = "off"
    /\ msgText = <<>>
    /\ msgState = getDefaultState
    /\ msgHandler = "allow"
    /\ msgExtract = <<>>
    /\ msgPc = "off"
    /\ ArchiveOff
    /\ InvokeOff
    /\ PostOff
    /\ RaceOff
    /\ StoreOff

\* the active change the hooks find for the checked-out branch (index, 0: none)
ActiveIndex == findActiveChangeForBranch(loadState(stateFile, FALSE), currentBranch)
Locked == ActiveIndex # 0
ActiveChange == loadState(stateFile, FALSE).active_changes[ActiveIndex]

\* ------------------------------------------------------------------------
\* PreToolUse hook: one run of main of openspec-enforce.ts
\* ------------------------------------------------------------------------
PreToolUse(ev, flt) ==
    /\ event = NoEvent
    /\ userMessage = NoMessage
    /\ event' = ev
    /\ fault' = flt
    /\ response' = main(strict, ev, stateFile, currentBranch, flt)
    /\ userReply' = NoReply
    /\ userMessage' = NoMessage
    /\ beforeDispatch' = NoDispatch
    /\ UNCHANGED << strict, stateFile, currentBranch, branches, lockedKeys >>
    /\ UNCHANGED planVars

TodoWriteGate == \E ev \in TodoWriteEvents : PreToolUse(ev, "none")
FileEditGate == \E ev \in FileEditEvents : PreToolUse(ev, "none")
MultiEditGate == \E ev \in MultiEditEvents : PreToolUse(ev, "none")
OtherToolGate == \E ev \in OtherToolEvents : PreToolUse(ev, "none")
FaultyGate == \E ev \in FaultEvents, flt \in Faults \ {"none"} : PreToolUse(ev, flt)

\* ------------------------------------------------------------------------
\* PostToolUse hook (post-tool-use.ts), run after a tool the gate allowed
\* ------------------------------------------------------------------------
\* a variant that stores the completed tasks of the payload only
handleTodoWriteSync_Mut(file, activeChange, params) ==
    IF ~params.present \/ ~params.todosIsArray THEN file
    ELSE upsertActiveChange(file,
             [activeChange EXCEPT !.approved_todos =
                 SelectSeq(TasksOfTodos(params.todos), LAMBDA t : t.completed)])

\* handleTodoWriteSync: the state file after the sync
handleTodoWriteSync(file, activeChange, params) ==
    IF ~params.present \/ ~params.todosIsArray THEN file
    ELSE upsertActiveChange(file,
             [activeChange EXCEPT !.approved_todos = TasksOfTodos(params.todos)])

\* processToolUseResult: the state file after the hook
\* (a variant that does not look at success)
processToolUseResult_Mut(file, branch, result) ==
    LET state == loadState(file, FALSE)
        idx == findActiveChangeForBranch(state, getCurrentBranch(branch, FALSE))
    IN  IF idx = 0 THEN file
        ELSE IF result.tool = "TodoWrite"
             THEN handleTodoWriteSync(file, state.active_changes[idx], result.parameters)
        ELSE file

processToolUseResult(file, branch, result) ==
    LET state == loadState(file, FALSE)
        idx == findActiveChangeForBranch(state, getCurrentBranch(branch, FALSE))
    IN  IF ~result.success THEN file
        ELSE IF idx = 0 THEN file
        ELSE IF result.tool = "TodoWrite"
             THEN handleTodoWriteSync(file, state.active_changes[idx], result.parameters)
        ELSE file

PostToolUse ==
    /\ event # NoEvent
    /\ response.action = "allow"
    /\ \E success \in BOOLEAN :
          stateFile' = processToolUseResult(stateFile, currentBranch,
                           [tool |-> event.tool, parameters |-> event.parameters,
                            success |-> success])
    /\ event' = NoEvent
    /\ fault' = "none"
    /\ response' = NoResponse
    /\ userReply' = NoReply
    /\ userMessage' = NoMessage
    /\ beforeDispatch' = NoDispatch
    /\ UNCHANGED << strict, currentBranch, branches, lockedKeys >>
    /\ UNCHANGED planVars

\* a tool the gate blocked does not run (exit code 2), and no hook follows it
ToolDenied ==
    /\ event # NoEvent
    /\ response.action = "block"
    /\ event' = NoEvent
    /\ fault' = "none"
    /\ response' = NoResponse
    /\ userReply' = NoReply
    /\ userMessage' = NoMessage
    /\ beforeDispatch' = NoDispatch
    /\ UNCHANGED << strict, stateFile, currentBranch, branches, lockedKeys >>
    /\ UNCHANGED planVars

\* ------------------------------------------------------------------------
\* UserPromptSubmit hook: processUserMessage and handleImplementationKeyword
\* ------------------------------------------------------------------------
\* kws.some(kw => lower.startsWith(kw + ":"))
SomeKeywordColon(kws, lower) ==
    \E k \in 1..Len(kws) : StartsWith(lower, kws[k] \o <<":">>)

\* kws.some(kw => lower === kw)
SomeKeywordEqual(kws, lower) == \E k \in 1..Len(kws) : lower = kws[k]

\* kws.some(kw => lower.startsWith(kw + " "))
SomeKeywordSpace(kws, lower) ==
    \E k \in 1..Len(kws) : StartsWith(lower, kws[k] \o <<" ">>)

\* processUserMessage: the handler the message is given to, "allow" for none
processUserMessage(message, state) ==
    LET lower == ToLower(Trim(message))
    IN  IF SomeKeywordColon(state.proposal_keywords, lower) THEN "handleProposalKeyword"
        ELSE IF SomeKeywordColon(state.implementation_keywords, lower)
             THEN "handleImplementationKeyword"
        ELSE IF \/ SomeKeywordColon(state.pause_keywords, lower)
                \/ SomeKeywordEqual(state.pause_keywords, lower)
             THEN "handlePauseKeyword"
        ELSE IF \/ SomeKeywordEqual(state.archive_keywords, lower)
                \/ SomeKeywordSpace(state.archive_keywords, lower)
             THEN "handleArchiveKeyword"
        ELSE "allow"

\* message.match(/^(apply|init):\s*(.+)$/i), then match[2].trim(); the empty
\* sequence when the message does not match
extractChangeId(message) ==
    LET lower == ToLower(message)
        rest(n) == Trim(SubSeq(message, n + 1, Len(message)))
    IN  IF StartsWith(lower, <<"a", "p", "p", "l", "y", ":">>) THEN rest(6)
        ELSE IF StartsWith(lower, <<"i", "n", "i", "t", ":">>) THEN rest(5)
        ELSE <<>>

\* activeChange && activeChange.changeId === change.id, where activeChange is
\* the entry found for the current branch (idx = 0: none)
\* (a variant that never finds the work item active)
isAlreadyActive_Mut(state, idx, change) == FALSE

isAlreadyActive(state, idx, change) ==
    idx # 0 /\ state.active_changes[idx].changeId = change

\* main -> processUserMessage -> handleImplementationKeyword, for one message
\* and one fault of the environment; a raise is answered with allow by main.
\* The user writes a message when no tool event is pending.
StartDispatch ==
    \E message \in DispatchMessages, flt \in DispatchFaults :
        LET trimmed == Trim(message)
            state == loadState(stateFile, FALSE)
            changeId == extractChangeId(trimmed)
            change == findChange(changeId)
            idx == findActiveChangeForBranch(state, getCurrentBranch(currentBranch, FALSE))
            branchName == generateBranchName(change)
            tasks == parseTasksFromContent(TasksMd[change])
        IN  /\ event = NoEvent
            /\ userMessage = NoMessage
            /\ processUserMessage(message, state) = "handleImplementationKeyword"
            /\ event' = NoEvent
            /\ beforeDispatch' = [stateFile |-> stateFile, currentBranch |-> currentBranch,
                                  branches |-> branches]
            /\ fault' = flt
            /\ response' = NoResponse
            /\ userMessage' = message
            /\ UNCHANGED << strict, branches >>
            /\ UNCHANGED planVars
            /\ IF changeId = <<>>
               THEN /\ flt = "none"
                    /\ userReply' = Inject("no change-id provided")
                    /\ UNCHANGED << stateFile, currentBranch, lockedKeys >>
               ELSE IF flt = "changesDir"
               THEN /\ userReply' = AllowReply
                    /\ UNCHANGED << stateFile, currentBranch, lockedKeys >>
               ELSE IF change = <<>>
               THEN /\ flt = "none"
                    /\ userReply' = Inject("not found")
                    /\ UNCHANGED << stateFile, currentBranch, lockedKeys >>
               ELSE IF isAlreadyActive(state, idx, change)
               THEN /\ flt = "none"
                    /\ userReply' = Inject("already active")
                    /\ UNCHANGED << stateFile, currentBranch, lockedKeys >>
               ELSE IF ~branchExists(branchName, branches)
               THEN /\ flt = "none"
                    /\ userReply' = Inject("confirm branch")
                    /\ UNCHANGED << stateFile, currentBranch, lockedKeys >>
               ELSE IF flt = "checkout"
               THEN /\ userReply' = AllowReply
                    /\ UNCHANGED << stateFile, currentBranch, lockedKeys >>
               ELSE IF flt \in {"tasksDoc", "stateWrite"}
               THEN /\ userReply' = AllowReply
                    /\ currentBranch' = branchName
                    /\ UNCHANGED << stateFile, lockedKeys >>
               ELSE /\ currentBranch' = branchName
                    /\ stateFile' = upsertActiveChange(stateFile,
                           [ changeId |-> change,
                             branch |-> branchName,
                             tasks_md_hash |-> calculateFileHash(TasksMd[change]),
                             proposal_md_hash |-> calculateFileHash(ProposalMd[change]),
                             approved_todos |-> tasks ])
                    /\ lockedKeys' = [lockedKeys EXCEPT ![change] = KeysOf(tasks)]
                    /\ userReply' = Inject("implementation mode activated")

\* outputResponse: the answer is written and the hook process ends
DispatchAnswered ==
    /\ userMessage # NoMessage
    /\ userMessage' = NoMessage
    /\ beforeDispatch' = NoDispatch
    /\ userReply' = NoReply
    /\ fault' = "none"
    /\ UNCHANGED << strict, stateFile, currentBranch, branches, event, response, lockedKeys >>
    /\ UNCHANGED planVars

\* handleArchiveKeyword: the active change of the branch, else the only
\* directory listChanges returns; no directory and several directories are
\* answered without a change to archive
\* (a variant that takes some directory when several exist)
handleArchiveKeyword_Mut(state, branch, dirs) ==
    LET idx == findActiveChangeForBranch(state, branch)
    IN  IF idx # 0 THEN InjectArchiving(state.active_changes[idx].changeId)
        ELSE IF Cardinality(dirs) = 0 THEN Inject("no changes found to archive")
        ELSE InjectArchiving(CHOOSE d \in dirs : TRUE)

handleArchiveKeyword(state, branch, dirs) ==
    LET idx == findActiveChangeForBranch(state, branch)
    IN  IF idx # 0 THEN InjectArchiving(state.active_changes[idx].changeId)
        ELSE IF Cardinality(dirs) = 0 THEN Inject("no changes found to archive")
        ELSE IF Cardinality(dirs) = 1 THEN InjectArchiving(CHOOSE d \in dirs : TRUE)
        ELSE Inject("multiple changes available")

\* the close messages the user writes
ArchiveMessages ==
    { <<"a", "r", "c", "h", "i", "v", "e">>,
      <<"D", "o", "n", "e", " ", "-", "-", "s", "k", "i", "p", "-", "r", "e", "v", "i", "e", "w">> }

\* main -> processUserMessage -> handleArchiveKeyword, for one message; the
\* changes directory is listed only when the branch has no active change, and
\* a failure to list it is answered with allow by main.  The handler writes
\* nothing: the state file and the repository stay as they are.
ArchiveDispatch ==
    \E message \in ArchiveMessages, flt \in {"none", "changesDir"} :
        LET state == loadState(stateFile, FALSE)
            branch == getCurrentBranch(currentBranch, FALSE)
        IN  /\ event = NoEvent
            /\ userMessage = NoMessage
            /\ processUserMessage(message, state) = "handleArchiveKeyword"
            /\ flt = "changesDir" => findActiveChangeForBranch(state, branch) = 0
            /\ event' = NoEvent
            /\ beforeDispatch' = [stateFile |-> stateFile, currentBranch |-> currentBranch,
                                  branches |-> branches]
            /\ fault' = flt
            /\ response' = NoResponse
            /\ userMessage' = message
            /\ userReply' = IF flt = "changesDir" THEN AllowReply
                            ELSE handleArchiveKeyword(state, branch, ChangeDirs)
            /\ UNCHANGED << strict, stateFile, currentBranch, branches, lockedKeys >>
            /\ UNCHANGED planVars

\* message.match(/^<keyword>:\s*(.+)$/i), then match[1].trim(); the empty
\* sequence when the message does not match
TextAfter(keyword, message) ==
    IF StartsWith(ToLower(message), keyword \o <<":">>)
    THEN Trim(SubSeq(message, Len(keyword) + 2, Len(message)))
    ELSE <<>>

\* handleProposalKeyword: the description after "propose:" is quoted
handleProposalKeyword(message) ==
    InjectProposal(TextAfter(<<"p", "r", "o", "p", "o", "s", "e">>, message))

\* handlePauseKeyword: nothing without worklog_enabled or without an active
\* change of the branch, else the worklog instruction with the note after
\* "pause:"
\* (a variant that gives the worklog instruction without an active change)
handlePauseKeyword_Mut(message, state, branch) ==
    LET idx == findActiveChangeForBranch(state, branch)
    IN  IF ~state.worklog_enabled THEN Inject("worklog generation is disabled")
        ELSE InjectWorklog(IF idx = 0 THEN <<>> ELSE state.active_changes[idx].changeId,
                           TextAfter(<<"p", "a", "u", "s", "e">>, message))

handlePauseKeyword(message, state, branch) ==
    LET idx == findActiveChangeForBranch(state, branch)
    IN  IF ~state.worklog_enabled THEN Inject("worklog generation is disabled")
        ELSE IF idx = 0 THEN Inject("no active change found")
        ELSE InjectWorklog(state.active_changes[idx].changeId,
                           TextAfter(<<"p", "a", "u", "s", "e">>, message))

\* the propose messages, the checkpoint messages and the messages without a
\* keyword the user writes
ProposalMessages ==
    { <<"p", "r", "o", "p", "o", "s", "e", ":", " ", "x">>,
      <<"P", "R", "O", "P", "O", "S", "E", ":">> }
PauseMessages ==
    { <<"p", "a", "u", "s", "e">>, <<"P", "a", "u", "s", "e", ":", " ", "n", " ">> }
PlainMessages ==
    { <<"a", "p", "p", "l", "y", " ">> \o ChangeOne, <<"p", "a", "u", "s", "e", "d">> }

\* main -> processUserMessage -> the handler of a message that is no start and
\* no close message.  None of these handlers writes: the state file and the
\* repository stay as they are.
\* (a variant that saves the state it loaded)
QuietDispatch_Mut(messages, handler) ==
    \E message \in messages :
        LET trimmed == Trim(message)
            state == loadState(stateFile, FALSE)
            branch == getCurrentBranch(currentBranch, FALSE)
        IN  /\ event = NoEvent
            /\ userMessage = NoMessage
            /\ processUserMessage(message, state) = handler
            /\ event' = NoEvent
            /\ beforeDispatch' = [stateFile |-> stateFile, currentBranch |-> currentBranch,
                                  branches |-> branches]
            /\ fault' = "none"
            /\ response' = NoResponse
            /\ userMessage' = message
            /\ userReply' = IF handler = "handleProposalKeyword"
                                THEN handleProposalKeyword(trimmed)
                            ELSE IF handler = "handlePauseKeyword"
                                THEN handlePauseKeyword(trimmed, loadState(stateFile, FALSE), branch)
                            ELSE AllowReply
            /\ stateFile' = saveState(state)
            /\ UNCHANGED << strict, currentBranch, branches, lockedKeys >>
            /\ UNCHANGED planVars

QuietDispatch(messages, handler) ==
    \E message \in messages :
        LET trimmed == Trim(message)
            state == loadState(stateFile, FALSE)
            branch == getCurrentBranch(currentBranch, FALSE)
        IN  /\ event = NoEvent
            /\ userMessage = NoMessage
            /\ processUserMessage(message, state) = handler
            /\ event' = NoEvent
            /\ beforeDispatch' = [stateFile |-> stateFile, currentBranch |-> currentBranch,
                                  branches |-> branches]
            /\ fault' = "none"
            /\ response' = NoResponse
            /\ userMessage' = message
            /\ userReply' = IF handler = "handleProposalKeyword"
                                THEN handleProposalKeyword(trimmed)
                            ELSE IF handler = "handlePauseKeyword"
                                THEN handlePauseKeyword(trimmed, loadState(stateFile, FALSE), branch)
                            ELSE AllowReply
            /\ UNCHANGED << strict, stateFile, currentBranch, branches, lockedKeys >>
            /\ UNCHANGED planVars

ProposalDispatch == QuietDispatch(ProposalMessages, "handleProposalKeyword")
PauseDispatch == QuietDispatch(PauseMessages, "handlePauseKeyword")
PassThrough == QuietDispatch(PlainMessages, "allow")

\* ------------------------------------------------------------------------
\* git, run by the user or the agent: createBranch and checkoutBranch
\* ------------------------------------------------------------------------
GitCreateBranch ==
    \E id \in GitBranchIds :
        /\ userMessage = NoMessage
        /\ generateBranchName(id) \notin branches
        /\ branches' = branches \cup {generateBranchName(id)}
        /\ currentBranch' = generateBranchName(id)
        /\ event' = NoEvent
        /\ fault' = "none"
        /\ response' = NoResponse
        /\ userReply' = NoReply
        /\ userMessage' = NoMessage
        /\ beforeDispatch' = NoDispatch
        /\ UNCHANGED << strict, stateFile, lockedKeys >>
        /\ UNCHANGED planVars

GitCheckout ==
    \E branch \in branches :
        /\ userMessage = NoMessage
        /\ branch # currentBranch
        /\ currentBranch' = branch
        /\ event' = NoEvent
        /\ fault' = "none"
        /\ response' = NoResponse
        /\ userReply' = NoReply
        /\ userMessage' = NoMessage
        /\ beforeDispatch' = NoDispatch
        /\ UNCHANGED << strict, stateFile, branches, lockedKeys >>
        /\ UNCHANGED planVars

Next ==
    \/ TodoWriteGate
    \/ FileEditGate
    \/ MultiEditGate
    \/ OtherToolGate
    \/ FaultyGate
    \/ PostToolUse
    \/ ToolDenied
    \/ StartDispatch
    \/ ArchiveDispatch
    \/ ProposalDispatch
    \/ PauseDispatch
    \/ PassThrough
    \/ DispatchAnswered
    \/ GitCreateBranch
    \/ GitCheckout

Spec == Init /\ [][Next]_vars

\* ------------------------------------------------------------------------
\* compareApprovedPlan on its own: the arguments are drawn, then it is applied
\* ------------------------------------------------------------------------
InitPlan ==
    /\ HookInit
    /\ strict
    /\ planA \in PlanSeqs
    /\ planB \in PlanSeqs
    /\ planDiff = EmptyDiff
    /\ planPc = "input"
    /\ firstSubmission = NoSubmission
    /\ resubmitted = FALSE
    /\ shCommand = <<>>
    /\ shExtrasafe = TRUE
    /\ shReadOnly = TRUE
    /\ shPc = "off"
    /\ msgText = <<>>
    /\ msgState = getDefaultState
    /\ msgHandler = "allow"
    /\ msgExtract = <<>>
    /\ msgPc = "off"
    /\ ArchiveOff
    /\ InvokeOff
    /\ PostOff
    /\ RaceOff
    /\ StoreOff

ComparePlans ==
    /\ planPc = "input"
    /\ planDiff' = compareApprovedPlan(planA, planB)
    /\ planPc' = "done"
    /\ UNCHANGED << planA, planB, firstSubmission, resubmitted >>
    /\ UNCHANGED << shVars, msgVars, auxVars >>
    /\ UNCHANGED hookVars

NextPlan == ComparePlans

SpecPlan == InitPlan /\ [][NextPlan]_vars

\* ------------------------------------------------------------------------
\* A todo-list write submitted to the gate twice in a row, in Locked state
\* ------------------------------------------------------------------------
\* the gate evaluates a todo-list write; the event and the verdict are kept
SubmitTodoWrite ==
    \E ev \in TodoWriteEvents :
        /\ event = NoEvent
        /\ userMessage = NoMessage
        /\ firstSubmission = NoSubmission
        /\ Locked
        /\ event' = ev
        /\ fault' = "none"
        /\ response' = main(strict, ev, stateFile, currentBranch, "none")
        /\ userReply' = NoReply
        /\ userMessage' = NoMessage
        /\ beforeDispatch' = NoDispatch
        /\ firstSubmission' = [event |-> ev, action |-> response'.action]
        /\ resubmitted' = FALSE
        /\ UNCHANGED << strict, stateFile, currentBranch, branches, lockedKeys >>
        /\ UNCHANGED << planA, planB, planDiff, planPc >>
        /\ UNCHANGED << shVars, msgVars, auxVars >>

\* the gate evaluates the same todo-list write once more
ResubmitTodoWrite ==
    /\ event = NoEvent
    /\ userMessage = NoMessage
    /\ Locked
    /\ firstSubmission # NoSubmission
    /\ event' = firstSubmission.event
    /\ fault' = "none"
    /\ response' = main(strict, firstSubmission.event, stateFile, currentBranch, "none")
    /\ userReply' = NoReply
    /\ userMessage' = NoMessage
    /\ beforeDispatch' = NoDispatch
    /\ resubmitted' = TRUE
    /\ UNCHANGED << strict, stateFile, currentBranch, branches, lockedKeys >>
    /\ UNCHANGED << planA, planB, planDiff, planPc, firstSubmission >>
    /\ UNCHANGED << shVars, msgVars, auxVars >>

\* between the two submissions: the hook after an allowed tool, or nothing after a blocked one
SyncBetween == ~resubmitted /\ PostToolUse
DeniedBetween == ~resubmitted /\ ToolDenied

\* the second submission is over: the hook after the tool if it was allowed
ResubmissionDone ==
    /\ event # NoEvent
    /\ resubmitted
    /\ IF response.action = "allow"
       THEN \E success \in BOOLEAN :
                stateFile' = processToolUseResult(stateFile, currentBranch,
                                 [tool |-> event.tool, parameters |-> event.parameters,
                                  success |-> success])
       ELSE stateFile' = stateFile
    /\ event' = NoEvent
    /\ fault' = "none"
    /\ response' = NoResponse
    /\ userReply' = NoReply
    /\ userMessage' = NoMessage
    /\ beforeDispatch' = NoDispatch
    /\ firstSubmission' = NoSubmission
    /\ resubmitted' = FALSE
    /\ UNCHANGED << strict, currentBranch, branches, lockedKeys >>
    /\ UNCHANGED << planA, planB, planDiff, planPc >>
    /\ UNCHANGED << shVars, msgVars, auxVars >>

\* the work item is started before a payload is submitted, not between its
\* two submissions
StartBeforeSubmission == firstSubmission = NoSubmission /\ StartDispatch

NextTwice ==
    \/ GitCreateBranch
    \/ StartBeforeSubmission
    \/ DispatchAnswered
    \/ SubmitTodoWrite
    \/ SyncBetween
    \/ DeniedBetween
    \/ ResubmitTodoWrite
    \/ ResubmissionDone

SpecTwice == Init /\ [][NextTwice]_vars

\* ------------------------------------------------------------------------
\* isBashReadOnly on its own: the command is drawn, then it is classified
\* ------------------------------------------------------------------------
MaxSegments == 2

\* the commands a pipeline is made of
SimpleCommands ==
    { <<"l", "s", " ", "-", "l", "a">>,
      <<"g", "i", "t", " ", "s", "t", "a", "t", "u", "s">>,
      <<"e", "c", "h", "o", " ", "h", "i">>,
      <<"g", "r", "e", "p", " ", "h">>,
      <<"r", "m", " ", "-", "r", "f", " ", "/", "t", "m", "p", "/", "x">>,
      <<"g", "i", "t", " ", "c", "o", "m", "m", "i", "t", " ", "-", "m", " ", "x">>,
      <<"f", "o", "o">>,
      <<"c", "d", " ", "/", "t", "m", "p">>,
      <<"p", "y", "t", "h", "o", "n", " ", "-", "c", " ", "1">>,
      <<"n", "p", "m", " ", "l", "i", "s", "t">>,
      <<"p", "i", "p", " ", "i", "n", "s", "t", "a", "l", "l", " ", "x">> }

CommandSeparators == { <<" ", "|", " ">>, <<" ", "&", "&", " ">>, <<" ", "|", "|", " ">>, <<"|">> }

RECURSIVE Pipelines(_)
\* the pipelines of n simple commands
Pipelines(n) ==
    IF n = 1 THEN SimpleCommands
    ELSE { head \o sep \o simple :
               head \in Pipelines(n - 1), sep \in CommandSeparators, simple \in SimpleCommands }

PipelineCommands == UNION { Pipelines(n) : n \in 1..MaxSegments }

\* a command followed by a redirection, with and without spaces around the operator
RedirectionOperators ==
    { <<">">>, <<">", ">">>, <<"<", "<", "<">>, <<"2", ">", "&", "1">>, <<"<">>, <<"&", ">">> }

RedirectionCommands ==
    { name \o <<" ", "h", "i">> \o before \o op \o after \o <<"f">> :
          name \in { <<"e", "c", "h", "o">>, <<"l", "s">>, <<"r", "m">>, <<"f", "o", "o">> },
          before \in { <<>>, <<" ">> },
          op \in RedirectionOperators,
          after \in { <<>>, <<" ">> } }

\* git with and without global options in front of the subcommand
GitGlobalOptions ==
    { <<>>, <<" ", "-", "c", " ", "a", "=", "b">>, <<" ", "-", "-", "n", "o", "-", "p", "a", "g", "e", "r">>, <<" ", "-", "C", " ", "/", "t", "m", "p">> }

GitCommands ==
    { <<"g", "i", "t">> \o options \o <<" ">> \o subcommand \o rest :
          options \in GitGlobalOptions,
          subcommand \in { <<"c", "o", "m", "m", "i", "t">>, <<"p", "u", "s", "h">>, <<"r", "e", "s", "e", "t">>, <<"c", "h", "e", "c", "k", "o", "u", "t">>, <<"s", "t", "a", "t", "u", "s">>, <<"l", "o", "g">>, <<"d", "i", "f", "f">> },
          rest \in { <<>>, <<" ", "x">> } }

ReferenceCommands ==
    { <<>>,
      <<" ", " ">>,
      <<"l", "s", " ", "-", "l", "a">>,
      <<"g", "i", "t", " ", "s", "t", "a", "t", "u", "s">>,
      <<"e", "c", "h", "o", " ", "h", "i", " ", "|", " ", "g", "r", "e", "p", " ", "h">>,
      <<"r", "m", " ", "-", "r", "f", " ", "/", "t", "m", "p", "/", "x">>,
      <<"g", "i", "t", " ", "c", "o", "m", "m", "i", "t", " ", "-", "m", " ", "x">>,
      <<"s", "e", "d", " ", "-", "i", " ", "'", "s", "/", "a", "/", "b", "/", "'", " ", "f", ".", "t", "x", "t">>,
      <<"e", "c", "h", "o", " ", "h", "i", " ", ">", " ", "o", "u", "t", ".", "t", "x", "t">> }

\* two commands in sequence or the first in the background: ; and & written
\* as tokens of their own
SequenceCommands ==
    { first \o sep \o second :
          first \in SimpleCommands,
          sep \in { <<" ", ";", " ">>, <<" ", "&", " ">> },
          second \in SimpleCommands }

ShellInputs ==
    ReferenceCommands \cup PipelineCommands \cup RedirectionCommands \cup GitCommands
        \cup SequenceCommands

InitShell ==
    /\ HookInit
    /\ planA = <<>>
    /\ planB = <<>>
    /\ planDiff = EmptyDiff
    /\ planPc = "off"
    /\ firstSubmission = NoSubmission
    /\ resubmitted = FALSE
    /\ shCommand \in ShellInputs
    /\ shExtrasafe \in BOOLEAN
    /\ shReadOnly = TRUE
    /\ shPc = "input"
    /\ msgText = <<>>
    /\ msgState = getDefaultState
    /\ msgHandler = "allow"
    /\ msgExtract = <<>>
    /\ msgPc = "off"
    /\ ArchiveOff
    /\ InvokeOff
    /\ PostOff
    /\ RaceOff
    /\ StoreOff

Classify ==
    /\ shPc = "input"
    /\ shReadOnly' = isBashReadOnlyExtra(shCommand, shExtrasafe)
    /\ shPc' = "done"
    /\ UNCHANGED << shCommand, shExtrasafe >>
    /\ UNCHANGED << planA, planB, planDiff, planPc, firstSubmission, resubmitted >>
    /\ UNCHANGED << msgVars, auxVars >>
    /\ UNCHANGED hookVars

NextShell == Classify

SpecShell == InitShell /\ [][NextShell]_vars

\* ------------------------------------------------------------------------
\* processUserMessage (UserPromptSubmit hook) on its own: which handler a
\* message is given to
\* ------------------------------------------------------------------------
\* a state file in which one keyword, go, was added to every family
SharedKeywordState ==
    [getDefaultState EXCEPT
        !.proposal_keywords = Append(@, <<"g", "o">>),
        !.implementation_keywords = Append(@, <<"g", "o">>),
        !.pause_keywords = Append(@, <<"g", "o">>),
        !.archive_keywords = Append(@, <<"g", "o">>)]

\* state files in which go was added to the start keywords, or to the
\* checkpoint keywords, only
StartKeywordState ==
    [getDefaultState EXCEPT !.implementation_keywords = Append(@, <<"g", "o">>)]
PauseKeywordState ==
    [getDefaultState EXCEPT !.pause_keywords = Append(@, <<"g", "o">>)]

MessageHeads ==
    { <<"p", "r", "o", "p", "o", "s", "e">>, <<"a", "p", "p", "l", "y">>, <<"i", "n", "i", "t">>, <<"p", "a", "u", "s", "e">>, <<"a", "r", "c", "h", "i", "v", "e">>, <<"d", "o", "n", "e">>, <<"c", "a", "n", "c", "e", "l">>, <<"g", "o">>, <<"A", "p", "p", "l", "y">>, <<"A", "R", "C", "H", "I", "V", "E">>, <<"P", "A", "U", "S", "E">>, <<"h", "e", "l", "l", "o">> }

MessageTails ==
    { <<>>, <<":">>, <<":", " ", "x">>, <<":", "x">>, <<" ", "x">>, <<" ", "-", "-", "s", "k", "i", "p", "-", "r", "e", "v", "i", "e", "w">>, <<"x">> }

MessageInputs ==
    { pad \o head \o tail \o pad :
          pad \in { <<>>, <<" ">> }, head \in MessageHeads, tail \in MessageTails }

InitMessage ==
    /\ HookInit
    /\ planA = <<>>
    /\ planB = <<>>
    /\ planDiff = EmptyDiff
    /\ planPc = "off"
    /\ firstSubmission = NoSubmission
    /\ resubmitted = FALSE
    /\ shCommand = <<>>
    /\ shExtrasafe = TRUE
    /\ shReadOnly = TRUE
    /\ shPc = "off"
    /\ msgText \in MessageInputs
    /\ msgState \in { getDefaultState, SharedKeywordState, StartKeywordState,
                      PauseKeywordState }
    /\ msgHandler = "allow"
    /\ msgExtract = <<>>
    /\ msgPc = "input"
    /\ ArchiveOff
    /\ InvokeOff
    /\ PostOff
    /\ RaceOff
    /\ StoreOff

\* what the handler takes from the trimmed message with its regular
\* expression: the description, the change id or the note (the checkpoint
\* handler reads the note only with worklog_enabled)
ExtractedText(handler, message, state) ==
    IF handler = "handleProposalKeyword"
        THEN TextAfter(<<"p", "r", "o", "p", "o", "s", "e">>, message)
    ELSE IF handler = "handleImplementationKeyword" THEN extractChangeId(message)
    ELSE IF handler = "handlePauseKeyword" /\ state.worklog_enabled
        THEN TextAfter(<<"p", "a", "u", "s", "e">>, message)
    ELSE <<>>

MatchMessage ==
    /\ msgPc = "input"
    /\ msgHandler' = processUserMessage(msgText, msgState)
    /\ msgExtract' = ExtractedText(processUserMessage(msgText, msgState), Trim(msgText),
                                   msgState)
    /\ msgPc' = "done"
    /\ UNCHANGED << msgText, msgState >>
    /\ UNCHANGED << planA, planB, planDiff, planPc, firstSubmission, resubmitted >>
    /\ UNCHANGED << shVars, auxVars >>
    /\ UNCHANGED hookVars

NextMessage == MatchMessage

SpecMessage == InitMessage /\ [][NextMessage]_vars

\* ------------------------------------------------------------------------
\* Properties of the todo-list gate and of the sync that follows it
\* ------------------------------------------------------------------------
\* the gate has just evaluated a tool event of the given tools, without a fault
Evaluated(tools) == event # NoEvent /\ event.tool \in tools /\ fault = "none"

\* the gate has evaluated a todo-list write that carries a todos array
TodoArrayEvaluated ==
    /\ Evaluated({"TodoWrite"})
    /\ event.parameters.present
    /\ event.parameters.todosIsArray

ProposedTasks == TasksOfTodos(event.parameters.todos)
ApprovedTasks == ActiveChange.approved_todos

\* every task of both lists has a content, so that the diff is defined
DiffDefined ==
    /\ \A i \in 1..Len(ApprovedTasks) : ApprovedTasks[i].hasContent
    /\ \A i \in 1..Len(ProposedTasks) : ProposedTasks[i].hasContent

\* the two lists differ in completed flags at most: entry by entry the same key
StatusOnly ==
    /\ DiffDefined
    /\ Len(ProposedTasks) = Len(ApprovedTasks)
    /\ \A i \in 1..Len(ProposedTasks) : TaskKey(ProposedTasks[i]) = TaskKey(ApprovedTasks[i])

\* C1: in Locked state the gate blocks a todo-list write exactly when the diff
\* of the proposed tasks against approved_todos has a task under added or
\* under removed, that is when the two lists do not have the same keys; a
\* payload that differs from approved_todos in completed flags only is allowed.
C1_TodoWriteBlockedIffScopeChange ==
    (Locked /\ TodoArrayEvaluated) =>
        LET diff == compareApprovedPlan(ApprovedTasks, ProposedTasks)
        IN  /\ (response.action = "block") <=>
                   (DiffDefined /\ (diff.added # <<>> \/ diff.removed # <<>>))
            /\ (response.action = "block") <=>
                   (DiffDefined /\ KeysOf(ProposedTasks) # KeysOf(ApprovedTasks))
            /\ response.action \in {"allow", "block"}
            /\ StatusOnly => response.action = "allow"

\* a locked item whose payload flips a completed flag is allowed, ...
C1_WitnessStatusOnlyAllowed ==
    /\ Locked
    /\ TodoArrayEvaluated
    /\ StatusOnly
    /\ \E i \in 1..Len(ProposedTasks) : ProposedTasks[i].completed # ApprovedTasks[i].completed
    /\ response.action = "allow"

\* C2: while a work item is locked, the keys of its approved_todos stay the
\* keys captured when it was locked, whatever todo-list writes are evaluated
\* and synced.
C2_ApprovedKeysFrozen ==
    \A i \in 1..Len(stateFile.doc.active_changes) :
        LET change == stateFile.doc.active_changes[i]
        IN  KeysOf(change.approved_todos) = lockedKeys[change.changeId]

\* C3: the sync after a todo-list write changes completed flags only: the
\* approved_todos of the active change keep their number and their contents,
\* for every well-formed payload the gate allowed.
C3_SyncKeepsEntries ==
    [][ (PostToolUse /\ Locked /\ TodoArrayEvaluated /\ DiffDefined) =>
            LET before == ActiveChange.approved_todos
                after == ActiveChange'.approved_todos
            IN  /\ Len(after) = Len(before)
                /\ \A i \in 1..Len(before) :
                      /\ after[i].hasContent = before[i].hasContent
                      /\ after[i].content = before[i].content ]_vars

\* ------------------------------------------------------------------------
\* Properties of the file-edit gate
\* ------------------------------------------------------------------------
FileTools == {"Write", "Edit", "MultiEdit", "NotebookEdit"}

\* the path the event names as its target: file_path, notebook_path, or the
\* file_path of the first edit of a multi-edit
TargetPath ==
    CASE event.tool \in {"Write", "Edit"} -> event.parameters.file_path
      [] event.tool = "NotebookEdit" -> event.parameters.notebook_path
      [] event.tool = "MultiEdit" /\ event.parameters.edits # <<>>
                                  /\ event.parameters.edits[1].isObject ->
             event.parameters.edits[1].file_path
      [] OTHER -> <<>>

HasTargetPath == event.parameters.present /\ TargetPath \notin {<<>>, NotAString}

\* path is, or ends with a path-segment suffix that is, a baseline document of the change
NamesBaseline(path, changeId) ==
    \E doc \in {ProposalPath(changeId), TasksPath(changeId)} :
        path = doc \/ EndsWith(path, <<"/">> \o doc)

C5_MultiEditAnyPositionBlocked ==
    (Locked /\ Evaluated({"MultiEdit"}) /\ event.parameters.present) =>
        ((\E i \in 1..Len(event.parameters.edits) :
             /\ event.parameters.edits[i].isObject
             /\ event.parameters.edits[i].file_path \notin {<<>>, NotAString}
             /\ NamesBaseline(normalizePath(event.parameters.edits[i].file_path),
                              ActiveChange.changeId))
         => response.action = "block")

\* C6: with no active change for the current branch the gate allows every
\* Write, Edit, MultiEdit and NotebookEdit event.
C6_UnrestrictedAllowsFileEdits ==
    (~Locked /\ Evaluated(FileTools)) => response.action = "allow"

\* ------------------------------------------------------------------------
\* Properties of the other tools and of the faults
\* ------------------------------------------------------------------------
GatedTools == {"TodoWrite"} \cup FileTools

\* C7: in Locked state every event of a tool other than TodoWrite, Write,
\* Edit, MultiEdit and NotebookEdit is allowed, whatever its parameters; a
\* shell command is allowed whether it reads or writes.
C7_LockedAllowsOtherTools ==
    (Locked /\ event # NoEvent /\ event.tool \notin GatedTools
            /\ fault \in {"none", "tasksDoc", "debugLog"})
        => response.action = "allow"

\* a shell command that is not read-only is allowed in Locked state
C7_WitnessLockedWritingShell ==
    /\ Locked
    /\ Evaluated({"Bash"})
    /\ event.parameters.present
    /\ event.parameters.command \notin {<<>>, NotAString}
    /\ ~isBashReadOnly(event.parameters.command)
    /\ response.action = "allow"

\* C8: an evaluation in which a step raised, or read the state or wrote the
\* debug log in vain, answers allow.
C8_FaultsAnswerAllow ==
    (event # NoEvent /\ (fault \in {"stateRead", "tasksDoc", "debugLog"}
                             \/ (fault = "none" /\ response.raised)))
        => response.action = "allow"

\* C9: when git cannot tell the branch, the gate allows the event.
C9_BranchQueryFailureAllows ==
    (event # NoEvent /\ fault = "git") => response.action = "allow"

\* ------------------------------------------------------------------------
\* Properties of compareApprovedPlan on its own
\* ------------------------------------------------------------------------
KeySeq(tasks) == [i \in 1..Len(tasks) |-> TaskKey(tasks[i])]

\* the keys a diff lists, bucket after bucket
BucketKeys(diff) ==
    KeySeq(diff.added) \o KeySeq(diff.removed)
        \o [i \in 1..Len(diff.modified) |-> TaskKey(diff.modified[i].new)]
        \o KeySeq(diff.unchanged)

NoRepeat(keys) == \A i, j \in 1..Len(keys) : keys[i] = keys[j] => i = j

\* every key of A and of B is listed once, and nothing else is listed
Partitions(diff, A, B) ==
    /\ NoRepeat(BucketKeys(diff))
    /\ Range(BucketKeys(diff)) = KeysOf(A) \cup KeysOf(B)

\* C10 as stated: for all task sequences A and B the four buckets of the diff
\* partition the keys of A and B.
C10_BucketsPartitionKeys ==
    planPc = "done" => Partitions(planDiff, planA, planB)

\* C10 amended: for task sequences A and B in which no normalized content
\* repeats, the four buckets of the diff partition the keys of A and B: every
\* key is in one bucket, once.
C10_BucketsPartitionDistinctKeys ==
    (planPc = "done" /\ NoRepeat(KeySeq(planA)) /\ NoRepeat(KeySeq(planB)))
        => Partitions(planDiff, planA, planB)

\* a diff of two lists without repetition that adds, removes and modifies
C10_WitnessThreeBuckets ==
    /\ planPc = "done"
    /\ NoRepeat(KeySeq(planA))
    /\ NoRepeat(KeySeq(planB))
    /\ planDiff.added # <<>>
    /\ planDiff.removed # <<>>
    /\ planDiff.modified # <<>>

\* C11: for a task sequence A in which no normalized content repeats, the diff
\* of A against A has nothing under added, removed and modified, and lists the
\* tasks of A, in order, under unchanged.
C11_DiffOfSelfIsUnchanged ==
    (planPc = "done" /\ planB = planA /\ NoRepeat(KeySeq(planA))) =>
        /\ ~planDiff.threw
        /\ planDiff.added = <<>>
        /\ planDiff.removed = <<>>
        /\ planDiff.modified = <<>>
        /\ planDiff.unchanged = planA

\* a list of several tasks compared with itself
C11_WitnessSelfDiff ==
    /\ planPc = "done"
    /\ planB = planA
    /\ Len(planA) >= 2
    /\ NoRepeat(KeySeq(planA))
    /\ planDiff.unchanged = planA

\* C12: in Locked state the same todo-list payload submitted to the gate twice
\* in a row gets the same verdict both times, also when the sync of the hook
\* that follows an allowed tool ran between the two submissions.
C12_SameVerdictTwice ==
    (event # NoEvent /\ resubmitted) =>
        /\ event = firstSubmission.event
        /\ response.action = firstSubmission.action

\* the second submission of a payload that the sync stored after the first one
C12_WitnessAfterSync ==
    /\ event # NoEvent
    /\ resubmitted
    /\ Locked
    /\ event.parameters.todosIsArray
    /\ ApprovedTasks = TasksOfTodos(event.parameters.todos)
    /\ ApprovedTasks # parseTasksFromContent(TasksMd[ActiveChange.changeId])
    /\ response.action = "allow"

\* ------------------------------------------------------------------------
\* Properties of isBashReadOnly
\* ------------------------------------------------------------------------
Classified == shPc = "done"

\* C13: a command that contains one of the operators >, >>, <<< and 2>&1, with
\* or without spaces around it, is not read-only, whatever the command name.
C13_RedirectionIsNeverReadOnly ==
    (/\ Classified
     /\ shExtrasafe
     /\ \/ Includes(shCommand, <<">">>)
        \/ Includes(shCommand, <<"<", "<", "<">>))
        => ~shReadOnly

\* C14: the reference results of isBashReadOnly with the default extrasafe.
C14_ReferenceResults ==
    (Classified /\ shExtrasafe) =>
           /\ shCommand = <<"l", "s", " ", "-", "l", "a">>
               => shReadOnly = TRUE
           /\ shCommand = <<"g", "i", "t", " ", "s", "t", "a", "t", "u", "s">>
               => shReadOnly = TRUE
           /\ shCommand = <<"e", "c", "h", "o", " ", "h", "i", " ", "|", " ", "g", "r", "e", "p", " ", "h">>
               => shReadOnly = TRUE
           /\ shCommand = <<"r", "m", " ", "-", "r", "f", " ", "/", "t", "m", "p", "/", "x">>
               => shReadOnly = FALSE
           /\ shCommand = <<"g", "i", "t", " ", "c", "o", "m", "m", "i", "t", " ", "-", "m", " ", "x">>
               => shReadOnly = FALSE
           /\ shCommand = <<"s", "e", "d", " ", "-", "i", " ", "'", "s", "/", "a", "/", "b", "/", "'", " ", "f", ".", "t", "x", "t">>
               => shReadOnly = FALSE
           /\ shCommand = <<"e", "c", "h", "o", " ", "h", "i", " ", ">", " ", "o", "u", "t", ".", "t", "x", "t">>
               => shReadOnly = FALSE
           /\ shCommand = <<>>
               => shReadOnly = TRUE
           /\ shCommand = <<" ", " ">>
               => shReadOnly = TRUE

\* the pipeline of two read-only commands is read-only
C14_WitnessPipeline ==
    /\ Classified
    /\ shExtrasafe
    /\ shCommand = <<"e", "c", "h", "o", " ", "h", "i", " ", "|", " ", "g", "r", "e", "p", " ", "h">>
    /\ shReadOnly

\* the first tokens, lower-cased, of the segments of a command
FirstTokens(command) ==
    LET segments == SplitSegments(Trim(command), 1, <<>>)
    IN  { ToLower(splitCommand(Trim(segments[k]))[1]) :
              k \in { j \in 1..Len(segments) : splitCommand(Trim(segments[j])) # <<>> } }

\* the command names that isBashReadOnly treats before it consults the lists
SpecialFirst ==
    { <<"c", "d">>, <<"p", "i", "p">>, <<"p", "i", "p", "3">>, <<"n", "p", "m">>, <<"y", "a", "r", "n">>, <<"p", "n", "p", "m">>, <<"p", "y", "t", "h", "o", "n">>, <<"p", "y", "t", "h", "o", "n", "3">> }

\* C15: with extrasafe, a command one of whose segments starts with a name
\* that is neither in READONLY_FIRST nor one of cd, pip, pip3, npm, yarn, pnpm,
\* python and python3 is not read-only.
C15_UnrecognizedNameIsWriteLike ==
    (/\ Classified
     /\ shExtrasafe
     /\ Trim(shCommand) # <<>>
     /\ FirstTokens(shCommand) \ (READONLY_FIRST \cup SpecialFirst) # {})
        => ~shReadOnly

\* an unknown name in the second segment, after a read-only first segment
C15_WitnessUnknownSecondSegment ==
    /\ Classified
    /\ shExtrasafe
    /\ shCommand = <<"l", "s", " ", "-", "l", "a", " ", "|", " ", "f", "o", "o">>
    /\ ~shReadOnly

\* the subcommand of a git invocation: the first argument that is neither an
\* option nor the value of -c or -C (<<>> if there is none)
GitSubcommand(parts) ==
    LET cands == { a \in 2..Len(parts) :
                      /\ ~StartsWith(parts[a], <<"-">>)
                      /\ ~(a > 2 /\ parts[a - 1] \in { <<"-", "c">>, <<"-", "C">> }) }
    IN  IF cands = {} THEN <<>>
        ELSE ToLower(parts[CHOOSE a \in cands : \A o \in cands : a <= o])

\* C16: a git invocation whose subcommand is in GIT_WRITE_SUBCOMMANDS is not
\* read-only, wherever the subcommand stands among the arguments of git.
C16_GitWriteSubcommandAnywhere ==
    (/\ Classified
     /\ shExtrasafe
     /\ LET segments == SplitSegments(Trim(shCommand), 1, <<>>)
        IN  \E k \in 1..Len(segments) :
                LET parts == splitCommand(Trim(segments[k]))
                IN  /\ parts # <<>>
                    /\ ToLower(parts[1]) = <<"g", "i", "t">>
                    /\ GitSubcommand(parts) \in GIT_WRITE_SUBCOMMANDS)
        => ~shReadOnly

\* ------------------------------------------------------------------------
\* Properties of processUserMessage
\* ------------------------------------------------------------------------
MsgLower == ToLower(Trim(msgText))

\* C17: a trimmed message goes to the propose, start or checkpoint family only
\* if it begins, in any case, with a keyword of the family followed by a
\* colon; it goes to the close family if it has that form, is a close keyword
\* or begins with a close keyword and a space; propose is tried before start,
\* start before checkpoint, checkpoint before close.
C17_KeywordFamilies ==
    msgPc = "done" =>
        LET propose == SomeKeywordColon(msgState.proposal_keywords, MsgLower)
            start == SomeKeywordColon(msgState.implementation_keywords, MsgLower)
            checkpoint == SomeKeywordColon(msgState.pause_keywords, MsgLower)
            close == \/ SomeKeywordColon(msgState.archive_keywords, MsgLower)
                     \/ SomeKeywordEqual(msgState.archive_keywords, MsgLower)
                     \/ SomeKeywordSpace(msgState.archive_keywords, MsgLower)
        IN  msgHandler =
                IF propose THEN "handleProposalKeyword"
                ELSE IF start THEN "handleImplementationKeyword"
                ELSE IF checkpoint THEN "handlePauseKeyword"
                ELSE IF close THEN "handleArchiveKeyword"
                ELSE "allow"


\* ------------------------------------------------------------------------
\* Properties of the start dispatch
\* ------------------------------------------------------------------------
\* the identifier the message of the last dispatch names
DispatchedId == extractChangeId(Trim(userMessage))

\* the directories whose name contains the identifier, letter case aside
FuzzyHits(id) == { d \in ChangeDirs : Includes(ToLower(d), ToLower(id)) }

\* the identifier is no directory name and not a part of exactly one
Unresolved(id) == id \notin ChangeDirs /\ Cardinality(FuzzyHits(id)) # 1

\* the work item a resolvable identifier stands for
Resolved(id) == IF id \in ChangeDirs THEN id ELSE CHOOSE d \in FuzzyHits(id) : TRUE

\* the last step was a start dispatch, no fault struck, and the message named
\* an existing work item
DispatchResolved ==
    /\ userMessage # NoMessage
    /\ fault = "none"
    /\ DispatchedId # <<>>
    /\ ~Unresolved(DispatchedId)

\* that work item
DispatchedChange == Resolved(DispatchedId)

\* C18: a start dispatch whose identifier is no directory name and not a part
\* of exactly one directory name answers with the not-found message, and the
\* state file, the current branch and the branches stay as they were.
C18_UnresolvedIdIsNotFound ==
    ( /\ userMessage # NoMessage
      /\ fault = "none"
      /\ DispatchedId # <<>>
      /\ Unresolved(DispatchedId) )
    => ( /\ userReply = Inject("not found")
         /\ stateFile = beforeDispatch.stateFile
         /\ currentBranch = beforeDispatch.currentBranch
         /\ branches = beforeDispatch.branches )

\* an identifier that is a part of two directory names was dispatched while a
\* work item was locked, and the answer was not found
C18_WitnessAmbiguousId ==
    /\ userReply = Inject("not found")
    /\ Cardinality(FuzzyHits(DispatchedId)) = 2
    /\ Locked

\* C19: a start dispatch for an existing work item whose branch does not
\* exist asks for confirmation: no branch is created, none is checked out and
\* the state file stays as it was.
C19_MissingBranchAsksConfirmation ==
    (DispatchResolved /\ generateBranchName(DispatchedChange) \notin beforeDispatch.branches)
    => ( /\ userReply = Inject("confirm branch")
         /\ branches = beforeDispatch.branches
         /\ currentBranch = beforeDispatch.currentBranch
         /\ stateFile = beforeDispatch.stateFile )

\* the second work item was dispatched while the first one was locked, and
\* the answer was the confirmation request
C19_WitnessSecondItem ==
    /\ DispatchResolved
    /\ DispatchedChange = ChangeTwo
    /\ userReply = Inject("confirm branch")
    /\ generateBranchName(ChangeTwo) \notin branches
    /\ Locked

\* the work item is locked on its own branch, which is checked out
LockedOn(id) ==
    /\ currentBranch = generateBranchName(id)
    /\ Locked
    /\ ActiveChange.changeId = id
    /\ ActiveChange.branch = generateBranchName(id)

\* the work item was locked on the branch checked out when the message arrived
WasActiveOnBranch(id) ==
    LET state == loadState(beforeDispatch.stateFile, FALSE)
        idx == findActiveChangeForBranch(state, beforeDispatch.currentBranch)
    IN  idx # 0 /\ state.active_changes[idx].changeId = id

\* the baseline of the work item of the current branch is what tasks.md parses to
BaselineIsParse(id) == ActiveChange.approved_todos = parseTasksFromContent(TasksMd[id])

\* the work item was started at some time and its branch is checked out
StartedOnBranch(id) == lockedKeys[id] # {} /\ currentBranch = generateBranchName(id)

\* the answer of the gate to the pending event is that of the switch for an
\* active change
GateEvaluatedLocked ==
    LET verdict == EnforceActive(ActiveChange, event.tool, event.parameters, FALSE)
    IN  response.action = (IF verdict.action = "throw" THEN "allow" ELSE verdict.action)

\* the tool events on the branch of a started work item are evaluated as Locked
LockedWhileOnBranch ==
    \A id \in ChangeDirs :
        StartedOnBranch(id)
        => ( /\ LockedOn(id)
             /\ (event # NoEvent /\ fault = "none") => GateEvaluatedLocked )

C21_AlreadyActiveChangesNothing ==
    (DispatchResolved /\ WasActiveOnBranch(DispatchedChange))
    => ( /\ userReply = Inject("already active")
         /\ stateFile = beforeDispatch.stateFile
         /\ currentBranch = beforeDispatch.currentBranch
         /\ branches = beforeDispatch.branches )

\* the work item was started again after a sync had marked its task completed
C21_WitnessAfterCompletion ==
    /\ DispatchResolved
    /\ WasActiveOnBranch(DispatchedChange)
    /\ Len(ActiveChange.approved_todos) = 1
    /\ ActiveChange.approved_todos[1].completed
    /\ ~BaselineIsParse(DispatchedChange)

\* ------------------------------------------------------------------------
\* handleArchiveKeyword on its own: the message, the state, the branch and the
\* directories of openspec/changes are drawn, then it is applied
\* ------------------------------------------------------------------------
\* the active change a start dispatch stores for a work item
StartedEntry(id) ==
    [ changeId |-> id,
      branch |-> generateBranchName(id),
      tasks_md_hash |-> calculateFileHash(TasksMd[id]),
      proposal_md_hash |-> calculateFileHash(ProposalMd[id]),
      approved_todos |-> parseTasksFromContent(TasksMd[id]) ]

\* the states it loads: no active change, one, two
ArchiveStates ==
    { [getDefaultState EXCEPT !.active_changes = entries] :
          entries \in { <<>>, <<StartedEntry(ChangeOne)>>, <<StartedEntry(ChangeTwo)>>,
                        <<StartedEntry(ChangeTwo), StartedEntry(ChangeOne)>> } }

ArchiveBranches ==
    { MainBranch, generateBranchName(ChangeOne), generateBranchName(ChangeTwo), UnknownBranch }

InitArchive ==
    /\ HookInit
    /\ planA = <<>>
    /\ planB = <<>>
    /\ planDiff = EmptyDiff
    /\ planPc = "off"
    /\ firstSubmission = NoSubmission
    /\ resubmitted = FALSE
    /\ shCommand = <<>>
    /\ shExtrasafe = TRUE
    /\ shReadOnly = TRUE
    /\ shPc = "off"
    /\ msgText = <<>>
    /\ msgState = getDefaultState
    /\ msgHandler = "allow"
    /\ msgExtract = <<>>
    /\ msgPc = "off"
    /\ arMessage \in ArchiveMessages
    /\ arState \in ArchiveStates
    /\ arBranch \in ArchiveBranches
    /\ arDirs \in SUBSET ChangeDirs
    /\ arReply = NoReply
    /\ arPc = "input"
    /\ StoreOff
    /\ InvokeOff
    /\ PostOff
    /\ RaceOff

ResolveArchive ==
    /\ arPc = "input"
    /\ processUserMessage(arMessage, arState) = "handleArchiveKeyword"
    /\ arReply' = handleArchiveKeyword(arState, getCurrentBranch(arBranch, FALSE), arDirs)
    /\ arPc' = "done"
    /\ UNCHANGED << arMessage, arState, arBranch, arDirs >>
    /\ UNCHANGED << planA, planB, planDiff, planPc, firstSubmission, resubmitted >>
    /\ UNCHANGED << shVars, msgVars, stVars, ivVars, poVars, ccVars >>
    /\ UNCHANGED hookVars

NextArchive == ResolveArchive

SpecArchive == InitArchive /\ [][NextArchive]_vars

\* ------------------------------------------------------------------------
\* The checkpoint dispatch from any state file: with and without active
\* changes, with and without worklog_enabled, on any branch
\* ------------------------------------------------------------------------
PauseFiles ==
    { NoStateFile } \cup
    { saveState([state EXCEPT !.worklog_enabled = enabled]) :
          state \in ArchiveStates, enabled \in BOOLEAN }

InitPause ==
    /\ strict \in BOOLEAN
    /\ stateFile \in PauseFiles
    /\ currentBranch \in ArchiveBranches
    /\ branches = ArchiveBranches \ {UnknownBranch}
    /\ event = NoEvent
    /\ fault = "none"
    /\ response = NoResponse
    /\ userReply = NoReply
    /\ userMessage = NoMessage
    /\ beforeDispatch = NoDispatch
    /\ lockedKeys = [id \in ChangeDirs |-> {}]
    /\ planA = <<>>
    /\ planB = <<>>
    /\ planDiff = EmptyDiff
    /\ planPc = "off"
    /\ firstSubmission = NoSubmission
    /\ resubmitted = FALSE
    /\ shCommand = <<>>
    /\ shExtrasafe = TRUE
    /\ shReadOnly = TRUE
    /\ shPc = "off"
    /\ msgText = <<>>
    /\ msgState = getDefaultState
    /\ msgHandler = "allow"
    /\ msgExtract = <<>>
    /\ msgPc = "off"
    /\ ArchiveOff
    /\ InvokeOff
    /\ PostOff
    /\ RaceOff
    /\ StoreOff

NextPause ==
    \/ PauseDispatch
    \/ DispatchAnswered

SpecPause == InitPause /\ [][NextPause]_vars

\* ------------------------------------------------------------------------
\* The state store on its own, step by step (shared-state.ts).  The state file
\* and the temporary file hold texts; loadState parses a text and saveState
\* writes one in three steps: mkdir, writeFile of the temporary file, rename.
\* ------------------------------------------------------------------------
\* a JSON number as the text spells it: 2, 2.0 or 2e0 are the same number
Numeral(digits, spelling) == [digits |-> digits, spelling |-> spelling]

\* JSON.parse of a complete document: white space is dropped and a numeral
\* becomes its number; fields the state type does not know stay
JSONparse(value) ==
    IF "active_changes" \notin DOMAIN value THEN value
    ELSE [value EXCEPT !.active_changes =
             [i \in 1..Len(@) |->
                 [@[i] EXCEPT !.approved_todos =
                     [k \in 1..Len(@) |-> [@[k] EXCEPT !.line = @.digits]]]]]

\* the document JSON.stringify writes for a state
DocumentOf(state, spelling) ==
    IF "active_changes" \notin DOMAIN state THEN state
    ELSE [state EXCEPT !.active_changes =
             [i \in 1..Len(@) |->
                 [@[i] EXCEPT !.approved_todos =
                     [k \in 1..Len(@) |-> [@[k] EXCEPT !.line = Numeral(@, spelling)]]]]]

\* JSON.stringify(state, null, 2)
\* (a variant that writes no active change)
JSONstringify_Mut(state) ==
    [shape |-> "json",
     value |-> IF "active_changes" \in DOMAIN state
               THEN DocumentOf([state EXCEPT !.active_changes = <<>>], "plain")
               ELSE DocumentOf(state, "plain"),
     layout |-> "indent2"]

JSONstringify(state) ==
    [shape |-> "json", value |-> DocumentOf(state, "plain"), layout |-> "indent2"]

\* a text cut short in the middle of a write
Partial(state) ==
    [shape |-> "partial", value |-> DocumentOf(state, "plain"), layout |-> "indent2"]

\* loadState of the state file: readFile fails for a missing file (ENOENT) or
\* for another reason (readFails), JSON.parse fails for a text that is no
\* complete document
loadFile(content, readFails) ==
    loadState([exists |-> content.shape # "missing", doc |-> JSONparse(content.value)],
              readFails \/ content.shape \in {"partial", "garbage"})

\* removeActiveChange: load, filter the entries of that changeId out, save
removeActiveChange(file, changeId) ==
    LET state == loadState(file, FALSE)
    IN  saveState([state EXCEPT
            !.active_changes = SelectSeq(@, LAMBDA c : c.changeId # changeId)])

\* fs.writeFile of saveState: it writes the temporary file
\* (a variant that writes the state file in place)
writeFileStep_Mut(file, temp, text) == [file |-> text, temp |-> temp]

writeFileStep(file, temp, text) == [file |-> file, temp |-> text]

\* fs.rename of saveState: the temporary file replaces the state file
renameStep(file, temp) == [file |-> temp, temp |-> NoContent]

\* the names of the operations that save, by caller
DirectCalls == {"upsertActiveChange", "removeActiveChange", "saveState"}

\* how the event of an operation ends.  A direct call returns or raises.  main
\* of the user-message hook answers a raise of handleImplementationKeyword
\* with allow.  handleTodoWriteSync catches the raise and returns no message,
\* as it does after a sync that found no completed task.
EventOutcome(op, failed) ==
    IF op.name \in DirectCalls THEN (IF failed THEN "raised" ELSE "returned")
    ELSE IF op.name = "handleImplementationKeyword"
         THEN (IF failed THEN "allow" ELSE "inject")
    ELSE IF failed THEN "no message"
    ELSE IF \E k \in 1..Len(op.entry.approved_todos) : op.entry.approved_todos[k].completed
         THEN "progress message"
    ELSE "no message"

\* the entries a direct call of upsertActiveChange is given
StoreBranches == { generateBranchName(id) : id \in ChangeDirs }
DirectEntries == { [StartedEntry(id) EXCEPT !.branch = b] : id \in ChangeDirs, b \in StoreBranches }

\* the texts found in the state file: none, no JSON, a document cut short, and
\* documents in two layouts and three spellings of the line numbers; one holds
\* fields the state type does not know
StoreStates ==
    { getDefaultState,
      [getDefaultState EXCEPT !.active_changes = <<StartedEntry(ChangeOne)>>],
      [getDefaultState EXCEPT !.active_changes = <<StartedEntry(ChangeTwo), StartedEntry(ChangeOne)>>,
                              !.worklog_enabled = FALSE],
      [mode |-> "custom", note |-> TRUE] }

StoreFiles ==
    { [shape |-> "json", value |-> DocumentOf(state, spelling), layout |-> layout] :
          state \in StoreStates, spelling \in {"plain", "decimal", "exponent"},
          layout \in {"indent2", "compact"} }
      \cup { NoContent,
             [shape |-> "garbage", value |-> DocumentOf(getDefaultState, "plain"), layout |-> ""],
             Partial([getDefaultState EXCEPT !.active_changes = <<StartedEntry(ChangeOne)>>]) }

\* everything but the store stays as it is
StoreFrame ==
    /\ UNCHANGED << planA, planB, planDiff, planPc, firstSubmission, resubmitted >>
    /\ UNCHANGED << shVars, msgVars, arVars, ivVars, poVars, ccVars >>
    /\ UNCHANGED hookVars

InitStoreAt(files) ==
    /\ HookInit
    /\ planA = <<>>
    /\ planB = <<>>
    /\ planDiff = EmptyDiff
    /\ planPc = "off"
    /\ firstSubmission = NoSubmission
    /\ resubmitted = FALSE
    /\ shCommand = <<>>
    /\ shExtrasafe = TRUE
    /\ shReadOnly = TRUE
    /\ shPc = "off"
    /\ msgText = <<>>
    /\ msgState = getDefaultState
    /\ msgHandler = "allow"
    /\ msgExtract = <<>>
    /\ msgPc = "off"
    /\ ArchiveOff
    /\ InvokeOff
    /\ PostOff
    /\ RaceOff
    /\ stFile \in files
    /\ stTemp = NoContent
    /\ stOp = NoOp
    /\ stMem = getDefaultState
    /\ stBefore = NoContent
    /\ stResult = NoResult
    /\ stPc = "idle"

\* an operation loads the state, changes it in memory and starts saveState;
\* the temporary file gets a name of its own (Date.now())
BeginOp(name, entry, newState) ==
    /\ stPc = "idle"
    /\ stOp' = [name |-> name, entry |-> entry, fault |-> "none"]
    /\ stMem' = newState
    /\ stBefore' = stFile
    /\ stTemp' = NoContent
    /\ stResult' = NoResult
    /\ stPc' = "mkdir"
    /\ UNCHANGED stFile
    /\ StoreFrame

\* the state file as the atomic operators take it
LoadedFile == [exists |-> TRUE, doc |-> loadFile(stFile, FALSE)]

\* upsertActiveChange called with any entry
DirectUpsert ==
    \E entry \in DirectEntries :
        BeginOp("upsertActiveChange", entry, upsertActiveChange(LoadedFile, entry).doc)

\* removeActiveChange called with any id
DirectRemove ==
    \E id \in ChangeDirs :
        BeginOp("removeActiveChange", [NoEntry EXCEPT !.changeId = id],
                removeActiveChange(LoadedFile, id).doc)

\* the upsert of handleImplementationKeyword: the branch is generateBranchName
DispatchUpsert ==
    \E id \in ChangeDirs :
        BeginOp("handleImplementationKeyword", StartedEntry(id),
                upsertActiveChange(LoadedFile, StartedEntry(id)).doc)

\* the upsert of handleTodoWriteSync: an entry of the state with other todos
SyncUpsert ==
    \E i \in 1..Len(LoadedFile.doc.active_changes), done \in BOOLEAN :
        LET entry == [LoadedFile.doc.active_changes[i] EXCEPT !.approved_todos =
                         [k \in 1..Len(@) |-> [@[k] EXCEPT !.completed = done]]]
        IN  BeginOp("handleTodoWriteSync", entry, upsertActiveChange(LoadedFile, entry).doc)

\* saveState(await loadState())
SaveLoaded == BeginOp("saveState", NoEntry, loadFile(stFile, FALSE))

\* loadState on its own
StoreLoad ==
    \E readFails \in BOOLEAN :
        /\ stPc = "idle"
        /\ stOp' = [name |-> "loadState", entry |-> NoEntry,
                    fault |-> IF readFails THEN "read" ELSE "none"]
        /\ stBefore' = stFile
        /\ stResult' = [outcome |-> "returned", state |-> loadFile(stFile, readFails),
                        saveFailed |-> FALSE]
        /\ UNCHANGED << stFile, stTemp, stMem, stPc >>
        /\ StoreFrame

\* saveState, first step: fs.mkdir(stateDir, { recursive: true })
SaveMkdir ==
    /\ stPc = "mkdir"
    /\ stPc' = "write"
    /\ UNCHANGED << stFile, stTemp, stOp, stMem, stBefore, stResult >>
    /\ StoreFrame

\* second step: fs.writeFile(tempFile, JSON.stringify(state, null, 2))
SaveWriteTemp ==
    /\ stPc = "write"
    /\ LET written == writeFileStep(stFile, stTemp, JSONstringify(stMem))
       IN  stFile' = written.file /\ stTemp' = written.temp
    /\ stPc' = "rename"
    /\ UNCHANGED << stOp, stMem, stBefore, stResult >>
    /\ StoreFrame

\* third step: fs.rename(tempFile, STATE_FILE); the operation returns
SaveRename ==
    /\ stPc = "rename"
    /\ LET renamed == renameStep(stFile, stTemp)
       IN  stFile' = renamed.file /\ stTemp' = renamed.temp
    /\ stPc' = "idle"
    /\ stResult' = [outcome |-> EventOutcome(stOp, FALSE), state |-> stMem, saveFailed |-> FALSE]
    /\ UNCHANGED << stOp, stMem, stBefore >>
    /\ StoreFrame

\* a step that stops half way (an error of the file system, or the end of the
\* process) leaves the files as they are, except writeFile, which may leave a
\* part of the text
Interrupted ==
    \/ UNCHANGED << stFile, stTemp >>
    \/ /\ stPc = "write"
       /\ LET written == writeFileStep(stFile, stTemp, Partial(stMem))
          IN  stFile' = written.file /\ stTemp' = written.temp

\* a step of saveState fails: saveState raises 'Failed to save state'
SaveFails ==
    /\ stPc \in {"mkdir", "write", "rename"}
    /\ Interrupted
    /\ stOp' = [stOp EXCEPT !.fault = stPc]
    /\ stPc' = "idle"
    /\ stResult' = [outcome |-> EventOutcome(stOp, TRUE), state |-> stMem, saveFailed |-> TRUE]
    /\ UNCHANGED << stMem, stBefore >>
    /\ StoreFrame

\* the process is killed before or during a step of saveState
Kill ==
    /\ stPc \in {"mkdir", "write", "rename"}
    /\ Interrupted
    /\ stPc' = "idle"
    /\ stResult' = [outcome |-> "killed", state |-> stMem, saveFailed |-> FALSE]
    /\ UNCHANGED << stOp, stMem, stBefore >>
    /\ StoreFrame

\* the operations that change the active changes, from the default state
InitStore == InitStoreAt({NoContent})

NextStore ==
    \/ DirectUpsert
    \/ DirectRemove
    \/ DispatchUpsert
    \/ SyncUpsert
    \/ SaveMkdir
    \/ SaveWriteTemp
    \/ SaveRename
    \/ SaveFails
    \/ Kill

SpecStore == InitStore /\ [][NextStore]_vars

\* loadState and saveState(loadState()), from any text in the state file
InitRoundTrip == InitStoreAt(StoreFiles)

NextRoundTrip ==
    \/ StoreLoad
    \/ SaveLoaded
    \/ SaveMkdir
    \/ SaveWriteTemp
    \/ SaveRename
    \/ SaveFails
    \/ Kill

SpecRoundTrip == InitRoundTrip /\ [][NextRoundTrip]_vars

\* ------------------------------------------------------------------------
\* Properties of the close dispatch
\* ------------------------------------------------------------------------
\* the last step was a close dispatch and no fault struck
CloseDispatched ==
    /\ userMessage # NoMessage
    /\ fault = "none"
    /\ processUserMessage(userMessage, loadState(beforeDispatch.stateFile, FALSE))
           = "handleArchiveKeyword"

\* the branch checked out when the message arrived was locked
WasLocked ==
    findActiveChangeForBranch(loadState(beforeDispatch.stateFile, FALSE),
                              beforeDispatch.currentBranch) # 0

\* the state file holds an active change of that id
HoldsEntryFor(id) ==
    LET state == loadState(stateFile, FALSE)
    IN  \E i \in 1..Len(state.active_changes) : state.active_changes[i].changeId = id

\* C22: after a close dispatch on a locked branch the state holds no active
\* change for the work item it closes, and the gate finds no active change for
\* the branch (it evaluates the following tool events as unrestricted).
C22_CloseUnlocksTheBranch ==
    (CloseDispatched /\ WasLocked)
        => (~HoldsEntryFor(userReply.changeId) /\ ~Locked)

\* the active changes of the state whose branch is the one checked out
LockedHere == { i \in 1..Len(arState.active_changes) : arState.active_changes[i].branch = arBranch }

\* C23: a close dispatch names the work item locked on the current branch if
\* there is one, otherwise the only existing work item if exactly one exists;
\* otherwise it answers with an inject response that asks which one (several
\* exist) or says that none was found (none exists), and names none.
C23_CloseTargetResolution ==
    arPc = "done" =>
        /\ arReply.action = "inject"
        /\ LockedHere # {}
              => \E i \in LockedHere : arReply.changeId = arState.active_changes[i].changeId
        /\ (LockedHere = {} /\ Cardinality(arDirs) = 1) => arReply.changeId \in arDirs
        /\ (LockedHere = {} /\ Cardinality(arDirs) > 1)
              => (arReply.changeId = <<>> /\ arReply.context = "multiple changes available")
        /\ (LockedHere = {} /\ arDirs = {})
              => (arReply.changeId = <<>> /\ arReply.context = "no changes found to archive")

\* the only existing work item is named although the state holds an active
\* change of another branch
C23_WitnessOnlyDirectory ==
    /\ arPc = "done"
    /\ LockedHere = {}
    /\ arState.active_changes # <<>>
    /\ arDirs = {ChangeTwo}
    /\ arReply = InjectArchiving(ChangeTwo)

\* ------------------------------------------------------------------------
\* Properties of the state store
\* ------------------------------------------------------------------------
\* C24: loadState never raises; for a missing state file and for a file whose
\* text cannot be parsed it returns the default state: mode discussion, no
\* active change, the default keyword lists, both feature flags true.
C24_LoadFallsBackToDefault ==
    stOp.name = "loadState" =>
        /\ stResult.outcome = "returned"
        /\ stBefore.shape \in {"missing", "garbage", "partial"} =>
              /\ stResult.state = getDefaultState
              /\ stResult.state.mode = "discussion"
              /\ stResult.state.active_changes = <<>>
              /\ stResult.state.proposal_keywords = <<<<"p", "r", "o", "p", "o", "s", "e">>>>
              /\ stResult.state.implementation_keywords
                     = <<<<"a", "p", "p", "l", "y">>, <<"i", "n", "i", "t">>>>
              /\ stResult.state.pause_keywords = <<<<"p", "a", "u", "s", "e">>>>
              /\ stResult.state.archive_keywords
                     = << <<"a", "r", "c", "h", "i", "v", "e">>, <<"d", "o", "n", "e">>,
                          <<"c", "a", "n", "c", "e", "l">> >>
              /\ stResult.state.review_agents_enabled
              /\ stResult.state.worklog_enabled

\* a state file cut short, holding a part of a document with an active change,
\* was loaded
C24_WitnessCutDocument ==
    /\ stOp.name = "loadState"
    /\ stOp.fault = "none"
    /\ stBefore.shape = "partial"
    /\ stBefore.value.active_changes # <<>>
    /\ stResult.state = getDefaultState

\* C25: whenever the process stops between or during the steps of saveState,
\* the state file holds the complete text it held before the operation or the
\* complete text of the new state, never a part of one.
C25_StateFileIsNeverPartial ==
    stPc # "off" =>
        /\ stFile.shape \in {"missing", "json"}
        /\ stOp.name # "" => stFile \in {stBefore, JSONstringify(stMem)}

\* the process was killed during writeFile: the temporary file holds a part of
\* the new text and the state file the previous document
C25_WitnessKilledDuringWrite ==
    /\ stResult.outcome = "killed"
    /\ stTemp.shape = "partial"
    /\ stFile.shape = "json"
    /\ stFile = stBefore
    /\ stFile # JSONstringify(stMem)

\* the active changes of the state file
StoredChanges == loadFile(stFile, FALSE).active_changes

\* C26: after any sequence of upserts, removals, start dispatches and todo
\* syncs from the default state, no two active changes share a changeId and no
\* two share a branch.
C26_UniqueIdsAndBranches ==
    stPc # "off" =>
        \A i, j \in 1..Len(StoredChanges) :
            i # j => /\ StoredChanges[i].changeId # StoredChanges[j].changeId
                     /\ StoredChanges[i].branch # StoredChanges[j].branch

\* what a text means: its document, with every numeral read as its number
Denotation(content) == JSONparse(content.value)

C28_SaveFailureSurfaces ==
    stResult.saveFailed => stResult.outcome = "raised"

\* ------------------------------------------------------------------------
\* Properties of the answers
\* ------------------------------------------------------------------------
\* the last step was the dispatch of a message that matched a start keyword
StartDispatched ==
    /\ userMessage # NoMessage
    /\ processUserMessage(userMessage, loadState(beforeDispatch.stateFile, FALSE))
           = "handleImplementationKeyword"

\* C29: a message that matched a start keyword is never answered with allow;
\* when resolving the work item, switching the branch or reading the baseline
\* documents fails, the answer is an inject response.
C29_StartKeywordIsAnsweredWithInject ==
    StartDispatched => userReply.action = "inject"

\* C30: every response of the gate with action block carries a message that is
\* not empty.
C30_BlockCarriesMessage ==
    response.action = "block" => response.message # ""

\* the strict gate has blocked a write-like shell command on a branch without
\* an active change
C30_WitnessShellBlocked ==
    /\ strict
    /\ ~Locked
    /\ event.tool = "Bash"
    /\ response.action = "block"
    /\ response.message = "Discussion Mode: write-like bash"

\* ------------------------------------------------------------------------
\* Properties of the checkpoint dispatch and of the dispatches that write nothing
\* ------------------------------------------------------------------------
\* the last step was a checkpoint dispatch
PauseDispatched ==
    /\ userMessage # NoMessage
    /\ processUserMessage(userMessage, loadState(beforeDispatch.stateFile, FALSE))
           = "handlePauseKeyword"

\* C31: a checkpoint dispatch on a branch without an active change answers
\* with an inject response that reports the error and gives no worklog
\* instruction; every checkpoint dispatch leaves the state file as it was.
C31_CheckpointNeedsActiveChange ==
    PauseDispatched =>
        /\ stateFile = beforeDispatch.stateFile
        /\ ~WasLocked =>
              /\ userReply.action = "inject"
              /\ userReply.context \in {"no active change found", "worklog generation is disabled"}
              /\ userReply.changeId = <<>>

\* the state holds active changes of other branches and worklog_enabled, the
\* branch query failed, and the checkpoint was refused
C31_WitnessOtherBranchesLocked ==
    /\ PauseDispatched
    /\ ~WasLocked
    /\ currentBranch = UnknownBranch
    /\ Len(loadState(stateFile, FALSE).active_changes) = 2
    /\ loadState(stateFile, FALSE).worklog_enabled
    /\ userReply = Inject("no active change found")

\* ------------------------------------------------------------------------
\* Properties of the strict gate without an active change
\* ------------------------------------------------------------------------
\* the event carries a command that is a string and not the empty one
HasCommandString ==
    /\ event.parameters.present
    /\ event.parameters.command # <<>>
    /\ event.parameters.command # NotAString

readStdin_Mut(hook, channel, input) ==
    (IF channel = "closes" THEN { [how |-> "resolve", input |-> input] } ELSE {})
        \cup (IF channel = "error"
              THEN { [how |-> IF hook = "gate" THEN "reject" ELSE "resolve", input |-> NoInput] }
              ELSE {})

readStdin(hook, channel, input) ==
    { [how |-> "resolve", input |-> NoInput] }
        \cup (IF channel = "closes" THEN { [how |-> "resolve", input |-> input] } ELSE {})
        \cup (IF channel = "error"
              THEN { [how |-> IF hook = "gate" THEN "reject" ELSE "resolve", input |-> NoInput] }
              ELSE {})

GateInput(ev) == [kind |-> "json", event |-> ev, message |-> <<>>]
MessageInput(kind, message) == [kind |-> kind, event |-> NoEvent, message |-> message]

GateInputs ==
    { NoInput, MessageInput("text", <<"x">>) } \cup { GateInput(ev) : ev \in FaultEvents }

\* the messages whose handlers are computed here: propose, checkpoint and
\* plain messages, as JSON or as bare text, and a JSON event without message
DispatcherInputs ==
    { NoInput, MessageInput("json", NotAString) }
        \cup { MessageInput(kind, message) :
                   kind \in {"json", "text"},
                   message \in ProposalMessages \cup PauseMessages \cup PlainMessages }

\* the try block of main after a non-empty input was read: JSON.parse, then
\* processToolUse or processUserMessage and its handler.  The result depends
\* on the input, the state file and the repository only, which no step of the
\* invocation changes.
Evaluate(hook, isStrict, input, file, branch, flt) ==
    IF hook = "gate"
    THEN IF input.kind # "json" THEN [throws |-> FALSE, handler |-> "", response |-> Allow]
         ELSE LET verdict == processToolUse(isStrict, input.event, file, branch, flt)
              IN  [throws |-> verdict.action = "throw", handler |-> "", response |-> verdict]
    ELSE IF input.kind = "empty" THEN [throws |-> FALSE, handler |-> "", response |-> AllowReply]
    ELSE IF input.message = NotAString
         THEN [throws |-> TRUE, handler |-> "", response |-> AllowReply]
    ELSE LET state == loadState(file, flt = "stateRead")
             handler == processUserMessage(input.message, state)
             trimmed == Trim(input.message)
         IN  [throws |-> FALSE,
              handler |-> handler,
              response |-> IF handler = "handleProposalKeyword"
                               THEN handleProposalKeyword(trimmed)
                           ELSE IF handler = "handlePauseKeyword"
                               THEN handlePauseKeyword(trimmed, state,
                                                       getCurrentBranch(branch, FALSE))
                           ELSE AllowReply]

InvokeFaults == {"none", "stateRead", "git", "tasksDoc", "debugLog"}

InitInvoke ==
    /\ strict \in BOOLEAN
    /\ stateFile \in { NoStateFile, saveState([getDefaultState EXCEPT
                                         !.active_changes = <<StartedEntry(ChangeOne)>>]) }
    /\ currentBranch \in { MainBranch, generateBranchName(ChangeOne) }
    /\ branches = { MainBranch, generateBranchName(ChangeOne) }
    /\ event = NoEvent
    /\ fault = "none"
    /\ response = NoResponse
    /\ userReply = NoReply
    /\ userMessage = NoMessage
    /\ beforeDispatch = NoDispatch
    /\ lockedKeys = [id \in ChangeDirs |-> {}]
    /\ planA = <<>>
    /\ planB = <<>>
    /\ planDiff = EmptyDiff
    /\ planPc = "off"
    /\ firstSubmission = NoSubmission
    /\ resubmitted = FALSE
    /\ shCommand = <<>>
    /\ shExtrasafe = TRUE
    /\ shReadOnly = TRUE
    /\ shPc = "off"
    /\ msgText = <<>>
    /\ msgState = getDefaultState
    /\ msgHandler = "allow"
    /\ msgExtract = <<>>
    /\ msgPc = "off"
    /\ ArchiveOff
    /\ StoreOff
    /\ PostOff
    /\ RaceOff
    /\ ivHook \in {"gate", "dispatcher"}
    /\ ivChannel \in {"closes", "open", "error"}
    /\ ivInput \in (IF ivHook = "gate" THEN GateInputs ELSE DispatcherInputs)
    /\ ivFault \in (IF ivHook = "gate" THEN InvokeFaults ELSE {"none", "stateRead"})
    /\ ivRead = NoInput
    /\ ivEval = Evaluate(ivHook, strict, ivInput, stateFile, currentBranch, ivFault)
    /\ ivHandler = ""
    /\ ivOut = <<>>
    /\ ivPc = "start"

InvokeFrame ==
    UNCHANGED << hookVars, planA, planB, planDiff, planPc, firstSubmission, resubmitted,
                 shVars, msgVars, arVars, stVars, ivHook, ivChannel, ivInput, ivFault,
                 ivEval, poVars, ccVars >>

\* the appends to the debug log that precede readStdin in the strict gate
InvokeBegin ==
    /\ ivPc = "start"
    /\ ivPc' = IF ivHook = "gate" /\ strict /\ ivFault = "debugLog" THEN "catch" ELSE "reading"
    /\ UNCHANGED << ivRead, ivHandler, ivOut >>
    /\ InvokeFrame

\* await readStdin()
StdinSettles ==
    /\ ivPc = "reading"
    /\ \E settled \in readStdin(ivHook, ivChannel, ivInput) :
          /\ ivRead' = settled.input
          /\ ivPc' = IF settled.how = "reject" THEN "catch" ELSE "read"
    /\ UNCHANGED << ivHandler, ivOut >>
    /\ InvokeFrame

\* the rest of the try block of main: the empty input is answered with allow;
\* any other input is the one that was written, and its evaluation either
\* throws or is written to stdout
InvokeAnswer ==
    /\ ivPc = "read"
    /\ IF ivRead.kind = "empty"
       THEN /\ ivOut' = Append(ivOut, IF ivHook = "gate" THEN Allow ELSE AllowReply)
            /\ ivPc' = "done"
            /\ UNCHANGED ivHandler
       ELSE IF ivEval.throws
       THEN /\ ivPc' = "catch"
            /\ UNCHANGED << ivHandler, ivOut >>
       ELSE /\ ivOut' = Append(ivOut, ivEval.response)
            /\ ivHandler' = ivEval.handler
            /\ ivPc' = "done"
    /\ UNCHANGED ivRead
    /\ InvokeFrame

\* the catch block of main; the strict gate appends to the debug log first
InvokeCatch ==
    /\ ivPc = "catch"
    /\ IF ivHook = "gate" /\ strict /\ ivFault = "debugLog"
       THEN /\ ivPc' = "fatal"
            /\ UNCHANGED ivOut
       ELSE /\ ivOut' = Append(ivOut, IF ivHook = "gate" THEN AllowRaised ELSE AllowReply)
            /\ ivPc' = "done"
    /\ UNCHANGED << ivRead, ivHandler >>
    /\ InvokeFrame

\* main().catch: the response of last resort, then process.exit(0)
InvokeFatal ==
    /\ ivPc = "fatal"
    /\ ivOut' = Append(ivOut, AllowRaised)
    /\ ivPc' = "done"
    /\ UNCHANGED << ivRead, ivHandler >>
    /\ InvokeFrame

NextInvoke ==
    \/ InvokeBegin
    \/ StdinSettles
    \/ InvokeAnswer
    \/ InvokeCatch
    \/ InvokeFatal

\* the event loop runs every continuation that is ready, and the timer of
\* readStdin fires: a step that can be taken is taken
SpecInvoke == InitInvoke /\ [][NextInvoke]_vars /\ WF_vars(NextInvoke)

\* C33: every invocation of the gate and of the dispatcher ends with exactly
\* one response on stdout, never more than one on the way, also when stdin
\* never closes; with an absent or empty input the gate answers allow and the
\* dispatcher answers allow without calling a handler
C33_ExactlyOneResponse ==
    /\ [](Len(ivOut) <= 1)
    /\ <>[](ivPc = "done" /\ Len(ivOut) = 1)
    /\ []((ivPc = "done" /\ ivRead.kind = "empty" /\ Len(ivOut) = 1)
             => /\ ivOut[1].action = "allow"
                /\ ivHandler = "")

C33_WitnessStdinNeverCloses ==
    /\ ivChannel = "open"
    /\ ivInput.kind = "json"
    /\ ivPc = "done"
    /\ Len(ivOut) = 1
    /\ ivOut[1].action = "allow"

\* the handler processUserMessage chose for the dispatched message
DispatchedHandler ==
    processUserMessage(userMessage, loadState(beforeDispatch.stateFile, FALSE))

\* C34: a propose dispatch, a close dispatch and a message that matches no
\* keyword leave the state file as it was before the dispatch, and a message
\* that matches no keyword is answered with allow and no context
C34_QuietDispatchesKeepTheState ==
    (/\ userMessage # NoMessage
     /\ DispatchedHandler \in {"handleProposalKeyword", "handleArchiveKeyword", "allow"})
        => /\ stateFile = beforeDispatch.stateFile
           /\ DispatchedHandler = "allow" => userReply = AllowReply

C34_WitnessPlainMessageWhileLocked ==
    /\ userMessage = <<"a", "p", "p", "l", "y", " ">> \o ChangeOne
    /\ DispatchedHandler = "allow"
    /\ Locked
    /\ stateFile = beforeDispatch.stateFile
    /\ userReply = AllowReply

\* the keywords of the family the message was given to
FamilyKeywords ==
    IF msgHandler = "handleProposalKeyword" THEN msgState.proposal_keywords
    ELSE IF msgHandler = "handleImplementationKeyword" THEN msgState.implementation_keywords
    ELSE IF msgHandler = "handlePauseKeyword" THEN msgState.pause_keywords
    ELSE <<>>

\* C35: for every configured keyword of the propose, start or checkpoint
\* family, a message "kw: text" given to the handler of that family has its
\* trimmed text after the colon extracted (the change id, the description or
\* the note), as for the default keywords
C35_ConfiguredKeywordsExtract ==
    msgPc = "done" =>
        \A i \in 1..Len(FamilyKeywords) :
            StartsWith(MsgLower, FamilyKeywords[i] \o <<":">>)
                => msgExtract = TextAfter(FamilyKeywords[i], Trim(msgText))

\* ------------------------------------------------------------------------
\* The PostToolUse hook on its own: one post-invocation event, successful or
\* not, from any state file and on any branch
\* ------------------------------------------------------------------------
PostResults ==
    { [tool |-> ev.tool, parameters |-> ev.parameters, success |-> success] :
          ev \in { ToolEvent("TodoWrite", TodoParams(<<Todo(TextB, "completed")>>)),
                   ToolEvent("TodoWrite", NoParams),
                   ToolEvent("Write", FileParams(TasksPath(ChangeOne))),
                   ToolEvent("Edit", FileParams(TextA)),
                   ToolEvent("Bash", CommandParams(<<"l", "s">>)) },
          success \in BOOLEAN }

InitPost ==
    /\ strict \in BOOLEAN
    /\ stateFile \in PauseFiles
    /\ currentBranch \in ArchiveBranches
    /\ branches = ArchiveBranches \ {UnknownBranch}
    /\ event = NoEvent
    /\ fault = "none"
    /\ response = NoResponse
    /\ userReply = NoReply
    /\ userMessage = NoMessage
    /\ beforeDispatch = NoDispatch
    /\ lockedKeys = [id \in ChangeDirs |-> {}]
    /\ planA = <<>>
    /\ planB = <<>>
    /\ planDiff = EmptyDiff
    /\ planPc = "off"
    /\ firstSubmission = NoSubmission
    /\ resubmitted = FALSE
    /\ shCommand = <<>>
    /\ shExtrasafe = TRUE
    /\ shReadOnly = TRUE
    /\ shPc = "off"
    /\ msgText = <<>>
    /\ msgState = getDefaultState
    /\ msgHandler = "allow"
    /\ msgExtract = <<>>
    /\ msgPc = "off"
    /\ ArchiveOff
    /\ InvokeOff
    /\ StoreOff
    /\ RaceOff
    /\ postEvent = NoPost
    /\ postBefore = stateFile

\* main -> processToolUseResult for one event
PostToolUseRun ==
    /\ postEvent = NoPost
    /\ \E result \in PostResults :
          /\ postEvent' = result
          /\ stateFile' = processToolUseResult(stateFile, currentBranch, result)
    /\ postBefore' = stateFile
    /\ UNCHANGED << strict, currentBranch, branches, event, fault, response, userReply,
                    userMessage, beforeDispatch, lockedKeys >>
    /\ UNCHANGED << planA, planB, planDiff, planPc, firstSubmission, resubmitted >>
    /\ UNCHANGED << shVars, msgVars, arVars, stVars, ivVars, ccVars >>

NextPost == PostToolUseRun

SpecPost == InitPost /\ [][NextPost]_vars

\* the active change of the branch before the run (index, 0: none)
PostActiveIndex == findActiveChangeForBranch(loadState(postBefore, FALSE), currentBranch)

\* C36: a post-invocation event with success = false, or on a branch without
\* active change, or for a tool other than TodoWrite, leaves the state file as
\* it was
C36_PostEventFrame ==
    (/\ postEvent # NoPost
     /\ \/ ~postEvent.success
        \/ PostActiveIndex = 0
        \/ postEvent.tool # "TodoWrite")
        => stateFile = postBefore

C36_WitnessFailedTodoWrite ==
    /\ postEvent.tool = "TodoWrite"
    /\ postEvent.parameters.todosIsArray
    /\ ~postEvent.success
    /\ PostActiveIndex # 0
    /\ stateFile = postBefore
    /\ processToolUseResult(postBefore, currentBranch, [postEvent EXCEPT !.success = TRUE])
           # postBefore

\* ------------------------------------------------------------------------
\* The gate on its own: one evaluation of a tool event, with or without a
\* fault, from any state file and on any branch
\* ------------------------------------------------------------------------
InitGate == InitPause

GateRun == \E ev \in FaultEvents, flt \in Faults : PreToolUse(ev, flt)

NextGate == GateRun

SpecGate == InitGate /\ [][NextGate]_vars

\* the values of the fields the gate is said not to read
ModeValues == {"discussion", "implementation"}
HashValues == { calculateFileHash(TasksMd[ChangeOne]), calculateFileHash(<<>>) }

\* the state file with the mode field and the stored hashes of every active
\* change replaced
WithModeAndHashes(file, mode, tasksHash, proposalHash) ==
    [file EXCEPT !.doc =
        [@ EXCEPT !.mode = mode,
                  !.active_changes =
                      [i \in 1..Len(@) |->
                          [@[i] EXCEPT !.tasks_md_hash = tasksHash,
                                       !.proposal_md_hash = proposalHash]]]]

\* C37: the decision of the gate for an event does not depend on the mode
\* field of the state nor on the stored hashes of the tasks and proposal
\* documents: every state file that differs from the present one in those
\* fields only gets the same allow or block for the same event and branch
C37_DecisionIgnoresModeAndHashes ==
    event # NoEvent =>
        \A mode \in ModeValues, tasksHash \in HashValues, proposalHash \in HashValues :
            main(strict, event, WithModeAndHashes(stateFile, mode, tasksHash, proposalHash),
                 currentBranch, fault).action = response.action

C37_WitnessBlockedInEitherMode ==
    /\ event # NoEvent
    /\ fault = "none"
    /\ Locked
    /\ response.action = "block"
    /\ WithModeAndHashes(stateFile, "implementation", calculateFileHash(<<>>),
                         calculateFileHash(<<>>)) # stateFile
    /\ main(strict, event,
            WithModeAndHashes(stateFile, "implementation", calculateFileHash(<<>>),
                              calculateFileHash(<<>>)),
            currentBranch, fault).action = "block"

\* the active changes before the last dispatch and after it
ChangesBefore == loadState(beforeDispatch.stateFile, FALSE).active_changes
ChangesAfter == loadState(stateFile, FALSE).active_changes

\* C38: a dispatch other than close leaves every active work item active with
\* the same set of normalized task contents in its approved tasks, also a
\* start dispatch for the same work item given while another branch is
\* checked out
C38_BaselineStaysAuthoritative ==
    (/\ userMessage # NoMessage
     /\ DispatchedHandler # "handleArchiveKeyword")
        => \A i \in 1..Len(ChangesBefore) :
               \E k \in 1..Len(ChangesAfter) :
                   /\ ChangesAfter[k].changeId = ChangesBefore[i].changeId
                   /\ KeysOf(ChangesAfter[k].approved_todos)
                          = KeysOf(ChangesBefore[i].approved_todos)

\* the command words of a segment: its first word and every word that follows
\* a token ; or &
CommandWords(parts) ==
    { ToLower(parts[j]) : j \in { k \in 1..Len(parts) :
                                     k = 1 \/ parts[k - 1] \in { <<";">>, <<"&">> } } }

\* the command words of the simple commands of the classified command
ShellCommandWords ==
    LET segments == SplitSegments(Trim(shCommand), 1, <<>>)
    IN  UNION { CommandWords(splitCommand(Trim(segments[k]))) : k \in 1..Len(segments) }

\* C40: a command that isBashReadOnly with extrasafe = true calls read-only
\* has no name of WRITE_FIRST as the command word of a simple command, the
\* simple commands being delimited by |, && and || and by the tokens ; and &
C40_NoWriteCommandWord ==
    (shPc = "done" /\ shExtrasafe /\ shReadOnly)
        => ShellCommandWords \cap WRITE_FIRST = {}

\* ------------------------------------------------------------------------
\* Two hook processes that run upsertActiveChange at the same time: each
\* loads the state file, changes the state in memory and saves it with
\* mkdir, writeFile of the temporary file and rename (shared-state.ts)
\* ------------------------------------------------------------------------
RaceProcs == {1, 2}

\* the values Date.now() returns while the two processes run: the name of the
\* temporary file is the name of the state file followed by this number
ClockValues == {1, 2}

\* a file that was created or truncated and not written yet
EmptyText == [shape |-> "partial", value |-> DocumentOf(getDefaultState, "plain"), layout |-> ""]

\* a text made of the beginning of one document and the end of another
MixedText == [shape |-> "garbage", value |-> DocumentOf(getDefaultState, "plain"), layout |-> ""]

\* the length of a text, counted in active changes
TextSize(text) ==
    IF text.shape = "json" /\ "active_changes" \in DOMAIN text.value
    THEN 1 + Len(text.value.active_changes)
    ELSE 0

\* the content of a file after text was written at its beginning: what was
\* there beyond the end of the text stays
WriteOver(current, text) ==
    IF current.shape \in {"json", "garbage"} /\ TextSize(current) > TextSize(text)
    THEN MixedText
    ELSE text

NoProc == [pc |-> "load", entry |-> NoEntry, text |-> NoContent, name |-> 0, at |-> "none"]

InitRace ==
    /\ HookInit
    /\ planA = <<>>
    /\ planB = <<>>
    /\ planDiff = EmptyDiff
    /\ planPc = "off"
    /\ firstSubmission = NoSubmission
    /\ resubmitted = FALSE
    /\ shCommand = <<>>
    /\ shExtrasafe = TRUE
    /\ shReadOnly = TRUE
    /\ shPc = "off"
    /\ msgText = <<>>
    /\ msgState = getDefaultState
    /\ msgHandler = "allow"
    /\ msgExtract = <<>>
    /\ msgPc = "off"
    /\ ArchiveOff
    /\ InvokeOff
    /\ StoreOff
    /\ PostOff
    /\ ccFile \in { NoContent,
                    JSONstringify([getDefaultState EXCEPT
                                       !.active_changes = <<StartedEntry(ChangeOne)>>]) }
    /\ ccTemp = [n \in ClockValues |-> NoContent]
    /\ ccProc \in [RaceProcs -> { [NoProc EXCEPT !.entry = StartedEntry(id)] : id \in ChangeDirs }]

RaceFrame ==
    /\ UNCHANGED << planA, planB, planDiff, planPc, firstSubmission, resubmitted >>
    /\ UNCHANGED << shVars, msgVars, arVars, stVars, ivVars, poVars >>
    /\ UNCHANGED hookVars

\* upsertActiveChange up to saveState: loadState and the change in memory
RaceLoad(p) ==
    /\ ccProc[p].pc = "load"
    /\ ccProc' = [ccProc EXCEPT
           ![p].text = JSONstringify(
                           upsertActiveChange([exists |-> TRUE, doc |-> loadFile(ccFile, FALSE)],
                                              ccProc[p].entry).doc),
           ![p].pc = "mkdir"]
    /\ UNCHANGED << ccFile, ccTemp >>
    /\ RaceFrame

\* fs.mkdir(stateDir, { recursive: true })
RaceMkdir(p) ==
    /\ ccProc[p].pc = "mkdir"
    /\ ccProc' = [ccProc EXCEPT ![p].pc = "open"]
    /\ UNCHANGED << ccFile, ccTemp >>
    /\ RaceFrame

\* fs.writeFile, first half: Date.now() names the temporary file, which is
\* created, or truncated when a file of that name exists.  The clock does not
\* run backwards.
RaceOpen(p) ==
    /\ ccProc[p].pc = "open"
    /\ \E now \in ClockValues :
          /\ \A q \in RaceProcs : ccProc[q].name <= now
          /\ ccTemp' = [ccTemp EXCEPT ![now] = EmptyText]
          /\ ccProc' = [ccProc EXCEPT ![p].name = now, ![p].at = "temp", ![p].pc = "write"]
    /\ UNCHANGED ccFile
    /\ RaceFrame

\* fs.writeFile, second half: the text goes to the file that was opened,
\* under whatever name that file is found by now
RaceWrite(p) ==
    /\ ccProc[p].pc = "write"
    /\ ccTemp' = IF ccProc[p].at = "temp"
                 THEN [ccTemp EXCEPT ![ccProc[p].name] = WriteOver(@, ccProc[p].text)]
                 ELSE ccTemp
    /\ ccFile' = IF ccProc[p].at = "file" THEN WriteOver(ccFile, ccProc[p].text) ELSE ccFile
    /\ ccProc' = [ccProc EXCEPT ![p].pc = "rename"]
    /\ RaceFrame

\* fs.rename(tempFile, STATE_FILE): the temporary file takes the place of the
\* state file; without a file of that name rename fails and saveState raises
RaceRename(p) ==
    /\ ccProc[p].pc = "rename"
    /\ IF ccTemp[ccProc[p].name].shape = "missing"
       THEN /\ ccProc' = [ccProc EXCEPT ![p].pc = "failed"]
            /\ UNCHANGED << ccFile, ccTemp >>
       ELSE /\ ccFile' = ccTemp[ccProc[p].name]
            /\ ccTemp' = [ccTemp EXCEPT ![ccProc[p].name] = NoContent]
            /\ ccProc' = [q \in RaceProcs |->
                   IF q = p THEN [ccProc[q] EXCEPT !.pc = "done", !.at = "none"]
                   ELSE IF ccProc[q].at = "temp" /\ ccProc[q].name = ccProc[p].name
                        THEN [ccProc[q] EXCEPT !.at = "file"]
                   ELSE IF ccProc[q].at = "file" THEN [ccProc[q] EXCEPT !.at = "gone"]
                   ELSE ccProc[q]]
    /\ RaceFrame

NextRace ==
    \E p \in RaceProcs :
        \/ RaceLoad(p)
        \/ RaceMkdir(p)
        \/ RaceOpen(p)
        \/ RaceWrite(p)
        \/ RaceRename(p)

SpecRace == InitRace /\ [][NextRace]_vars

\* both processes have left saveState
RaceOver == \A p \in RaceProcs : ccProc[p].pc \in {"done", "failed"}

\* C39: with two processes running load, modify and save at the same time,
\* the state file never holds a text that is no complete document, and when
\* both have finished it holds the complete document one of the two wrote
C39_ConcurrentSavesAreAtomic ==
    /\ ccFile.shape \in {"missing", "json"}
    /\ RaceOver => \E p \in RaceProcs : ccFile = ccProc[p].text

====
